---- MODULE Spec2Model ----
(***************************************************************************)
(* Model of the Domain Connect client library (src/src/client.ts, which    *)
(* holds the DomainConnectClient class followed by the utility functions). *)
(*                                                                         *)
(* JavaScript strings are modelled as sequences of one-character strings,  *)
(* so that scanning, concatenation and encoding are computed character by  *)
(* character as the code does.  Optional values (host?, pointsTo?, ttl?,   *)
(* ...) carry a `def` flag; `def = FALSE` is JavaScript's undefined.       *)
(***************************************************************************)
EXTENDS Integers, Sequences, FiniteSets, TLC

VARIABLES op, args, post, ret, net

vars == <<op, args, post, ret, net>>

----------------------------------------------------------------------------
(* Bounds of the model.                                                    *)

\* longest text handed to replaceVariables, counted in pieces of TextPieces
MaxPieces == 3
\* largest number of own entries of a params object
MaxParams == 2
\* largest number of records of a template
MaxRecords == 2
\* largest number of declared parameters of a template
MaxTplParams == 2

\* largest number of labels of a hostname handed to splitHostname
MaxLabels == 4

\* largest number of nameservers a resolution answers with
MaxNs == 2

\* largest number of discoverSettings calls in flight at once
MaxCalls == 2

\* largest number of name=value pairs of a redirect URI's query
MaxPairs == 2

----------------------------------------------------------------------------
(* Strings.                                                                *)

S_a == <<"a">>
S_b == <<"b">>
S_at == <<"@">>
S_dot == <<".">>
S_pct == <<"%">>
S_host == <<"h", "o", "s", "t">>
S_domain == <<"d", "o", "m", "a", "i", "n">>
S_constructor == <<"c", "o", "n", "s", "t", "r", "u", "c", "t", "o", "r">>
S_true == <<"t", "r", "u", "e">>
S_false == <<"f", "a", "l", "s", "e">>
\* '%host%', the sentinel compared against in generateRecords
S_pct_host == S_pct \o S_host \o S_pct
S_pct_a == S_pct \o S_a \o S_pct
S_pct_constructor == S_pct \o S_constructor \o S_pct

\* the character class [a-zA-Z0-9_] of the placeholder pattern
IdentChars ==
  {"a", "b", "c", "d", "e", "f", "g", "h", "i", "j", "k", "l", "m", "n", "o",
   "p", "q", "r", "s", "t", "u", "v", "w", "x", "y", "z", "A", "B", "C", "D",
   "E", "F", "G", "H", "I", "J", "K", "L", "M", "N", "O", "P", "Q", "R", "S",
   "T", "U", "V", "W", "X", "Y", "Z", "0", "1", "2", "3", "4", "5", "6", "7",
   "8", "9", "_"}

DigitChar(d) ==
  CASE d = 0 -> "0" [] d = 1 -> "1" [] d = 2 -> "2" [] d = 3 -> "3"
    [] d = 4 -> "4" [] d = 5 -> "5" [] d = 6 -> "6" [] d = 7 -> "7"
    [] d = 8 -> "8" [] d = 9 -> "9"

RECURSIVE NatDigits(_)
\* decimal digits of a natural number, most significant first
NatDigits(n) ==
  IF n < 10 THEN <<DigitChar(n)>>
  ELSE NatDigits(n \div 10) \o <<DigitChar(n % 10)>>

\* Number.prototype.toString for an integer
IntString(n) == IF n < 0 THEN <<"-">> \o NatDigits(0 - n) ELSE NatDigits(n)

----------------------------------------------------------------------------
(* JavaScript values and objects.                                          *)
(* A value is [t, s, n, b]: t is "str", "num", "bool", "fn" (a function    *)
(* inherited from Object.prototype) or "undef".                            *)

StrVal(s) == [t |-> "str", s |-> s, n |-> 0, b |-> FALSE]
NumVal(n) == [t |-> "num", s |-> <<>>, n |-> n, b |-> FALSE]
BoolVal(b) == [t |-> "bool", s |-> <<>>, n |-> 0, b |-> b]
FnVal(s) == [t |-> "fn", s |-> s, n |-> 0, b |-> FALSE]
Undefined == [t |-> "undef", s |-> <<>>, n |-> 0, b |-> FALSE]

\* optional string: def = FALSE is undefined
NoStr == [def |-> FALSE, s |-> <<>>]
SomeStr(s) == [def |-> TRUE, s |-> s]
\* optional number
NoNum == [def |-> FALSE, n |-> 0]
SomeNum(n) == [def |-> TRUE, n |-> n]
\* optional boolean
NoBool == [def |-> FALSE, b |-> FALSE]
SomeBool(b) == [def |-> TRUE, b |-> b]

\* truthiness of an optional string: undefined and '' are falsy
TruthyStr(o) == o.def /\ o.s # <<>>
\* truthiness of an optional boolean
TruthyBool(o) == o.def /\ o.b

\* source text of the native function Object, as String() renders it
FnObjectText ==
  <<"f", "u", "n", "c", "t", "i", "o", "n", " ", "O", "b", "j", "e", "c", "t",
    "(", ")", " ", "{", " ", "[", "n", "a", "t", "i", "v", "e", " ", "c", "o",
    "d", "e", "]", " ", "}">>

\* the property a plain object inherits from Object.prototype under a name
\* (of the names the model's inputs use, 'constructor' is the inherited one)
ProtoGet(name) == IF name = S_constructor THEN FnVal(FnObjectText) ELSE Undefined

\* own keys of a params object (a sequence of [key, val] entries in the
\* object's iteration order)
OwnKeys(params) == {params[i].key : i \in 1..Len(params)}

OwnGet(params, name) ==
  LET i == CHOOSE j \in 1..Len(params) : params[j].key = name IN params[i].val

\* params[name]: the own property, else the property inherited from
\* Object.prototype, else undefined
Get(params, name) ==
  IF name \in OwnKeys(params) THEN OwnGet(params, name) ELSE ProtoGet(name)

\* String(value)
JSString(v) ==
  CASE v.t = "str" -> v.s
    [] v.t = "num" -> IntString(v.n)
    [] v.t = "bool" -> (IF v.b THEN S_true ELSE S_false)
    [] v.t = "fn" -> v.s
    [] v.t = "undef" -> <<"u", "n", "d", "e", "f", "i", "n", "e", "d">>

----------------------------------------------------------------------------
(* replaceVariables: text.replace(/%([a-zA-Z0-9_]+)%/g, replacer)          *)

RECURSIVE IdentRunEnd(_, _)
\* first index >= i of text that holds no identifier character (Len+1 if none)
IdentRunEnd(text, i) ==
  IF i > Len(text) \/ text[i] \notin IdentChars THEN i
  ELSE IdentRunEnd(text, i + 1)

\* index of the closing '%' of a match of the pattern starting at i, or 0
MatchEnd(text, i) ==
  IF text[i] # "%" THEN 0
  ELSE LET j == IdentRunEnd(text, i + 1) IN
       IF j > i + 1 /\ j <= Len(text) /\ text[j] = "%" THEN j ELSE 0

\* the replacer callback (match, varName) => ...
Replacer(match, varName, params) ==
  IF Get(params, varName).t # "undef" THEN JSString(Get(params, varName))
  ELSE match

RECURSIVE ReplaceFromOverlap(_, _, _)
\* mutant: the scan resumes at the closing '%' of the match, which may open
\* the next one
ReplaceFromOverlap(text, params, i) ==
  IF i > Len(text) THEN <<>>
  ELSE LET j == MatchEnd(text, i) IN
       IF j # 0
       THEN Replacer(SubSeq(text, i, j), SubSeq(text, i + 1, j - 1), params)
              \o (IF MatchEnd(text, j) # 0
                  THEN ReplaceFromOverlap(text, params, j)
                  ELSE ReplaceFromOverlap(text, params, j + 1))
       ELSE <<text[i]>> \o ReplaceFromOverlap(text, params, i + 1)

RECURSIVE ReplaceFrom(_, _, _)
\* the global replace: leftmost match, replacement emitted, scan resumes
\* after the match
ReplaceFrom(text, params, i) ==
  IF i > Len(text) THEN <<>>
  ELSE LET j == MatchEnd(text, i) IN
       IF j # 0
       THEN Replacer(SubSeq(text, i, j), SubSeq(text, i + 1, j - 1), params)
              \o ReplaceFrom(text, params, j + 1)
       ELSE <<text[i]>> \o ReplaceFrom(text, params, i + 1)

replaceVariables(text, params) == ReplaceFrom(text, params, 1)

----------------------------------------------------------------------------
(* generateRecords: template.records.map(record => ...)                    *)
(* The callback works on two object references, `record` (the template's   *)
(* record) and `resolvedRecord`; h.cells holds the objects and h.target    *)
(* names the object `resolvedRecord` refers to.                            *)

\* mutant: const resolvedRecord = record (an alias, no copy)
SpreadCopyAlias(record) ==
  [cells |-> [record |-> record, resolved |-> record], target |-> "record"]

\* const resolvedRecord = { ...record }: a fresh object with record's fields
SpreadCopy(record) ==
  [cells |-> [record |-> record, resolved |-> record], target |-> "resolved"]

\* resolvedRecord.<field>
Resolved(h) == h.cells[h.target]

\* resolvedRecord.host = v
SetHost(h, v) == [h EXCEPT !.cells[h.target].host = v]

\* resolvedRecord.pointsTo = v
SetPointsTo(h, v) == [h EXCEPT !.cells[h.target].pointsTo = SomeStr(v)]

\* mutant: the apex '@' is concatenated like any other host
ConcatHostNoApex(h, host) ==
  IF TruthyStr(host) /\ Resolved(h).host # S_pct_host
  THEN SetHost(h, Resolved(h).host \o S_dot \o host.s)
  ELSE h

\* mutant: the caller host is put in front: `${host}.${resolved}`
ConcatHostPrefix(h, host) ==
  IF TruthyStr(host)
  THEN IF Resolved(h).host = S_at THEN SetHost(h, host.s)
       ELSE IF Resolved(h).host # S_pct_host
            THEN SetHost(h, host.s \o S_dot \o Resolved(h).host)
            ELSE h
  ELSE h

\* mutant: the sentinel '%host%' is concatenated like a literal label
ConcatHostSentinel(h, host) ==
  IF TruthyStr(host)
  THEN IF Resolved(h).host = S_at THEN SetHost(h, host.s)
       ELSE SetHost(h, Resolved(h).host \o S_dot \o host.s)
  ELSE h

\* if (host) { '@' -> host; anything but '%host%' -> `${resolved}.${host}` }
ConcatHost(h, host) ==
  IF TruthyStr(host)
  THEN IF Resolved(h).host = S_at THEN SetHost(h, host.s)
       ELSE IF Resolved(h).host # S_pct_host
            THEN SetHost(h, Resolved(h).host \o S_dot \o host.s)
            ELSE h
  ELSE h

\* mutant: '%host%' becomes '@' whether or not a caller host is given
ReplaceHostSentinelApex(h, host) ==
  IF Resolved(h).host = S_pct_host THEN SetHost(h, S_at) ELSE h

\* '%host%' -> host when given, '@' when not
ReplaceHostSentinel(h, host) ==
  IF Resolved(h).host = S_pct_host /\ TruthyStr(host) THEN SetHost(h, host.s)
  ELSE IF Resolved(h).host = S_pct_host /\ ~TruthyStr(host) THEN SetHost(h, S_at)
       ELSE h

\* mutant: pointsTo is substituted whether or not the record has one
ResolvePointsToAlways(h, params) ==
  SetPointsTo(h, replaceVariables(
    IF TruthyStr(h.cells.record.pointsTo) THEN h.cells.record.pointsTo.s
    ELSE <<>>, params))

\* if (resolvedRecord.pointsTo) pointsTo = replaceVariables(record.pointsTo || '')
ResolvePointsTo(h, params) ==
  IF TruthyStr(Resolved(h).pointsTo)
  THEN SetPointsTo(h, replaceVariables(
         IF TruthyStr(h.cells.record.pointsTo) THEN h.cells.record.pointsTo.s
         ELSE <<>>, params))
  ELSE h

\* the map callback; the heap after it has run
resolveRecord(record, params, host) ==
  LET h0 == SpreadCopy(record)
      h1 == SetHost(h0, replaceVariables(h0.cells.record.host, params))
      h2 == ConcatHost(h1, host)
      h3 == ReplaceHostSentinel(h2, host)
  IN ResolvePointsTo(h3, params)

\* generateRecords(template, params, domain, host): the returned array, and
\* the template and params objects as the call leaves them
generateRecords(template, params, domain, host) ==
  LET hs == [i \in 1..Len(template.records) |->
               resolveRecord(template.records[i], params, host)]
  IN [ret |-> [i \in 1..Len(hs) |-> Resolved(hs[i])],
      template |-> [template EXCEPT
                      !.records = [i \in 1..Len(hs) |-> hs[i].cells.record]],
      params |-> params]

----------------------------------------------------------------------------
(* validateParameters                                                      *)

\* param => param.required && params[param.name] === undefined
IsMissing(param, params) ==
  TruthyBool(param.required) /\ Get(params, param.name).t = "undef"

validateParameters(template, params) ==
  IF ~template.parameters.def
  THEN [valid |-> TRUE, missing |-> <<>>]
  ELSE LET Test(p) == IsMissing(p, params)
           missingParams == SelectSeq(template.parameters.list, Test)
       IN [valid |-> Len(missingParams) = 0,
           missing |-> [i \in 1..Len(missingParams) |-> missingParams[i].name]]

----------------------------------------------------------------------------
(* URLSearchParams: a list of [name, value] pairs; toString() serialises   *)
(* it as application/x-www-form-urlencoded.                                *)

\* bytes left as they are by the serialiser: alphanumerics and * - . _
FormSafeChars == IdentChars \cup {"*", "-", "."}

\* the percent-encoded form of the other characters the inputs use
PercentCode(c) ==
  CASE c = ":" -> <<"%", "3", "A">>
    [] c = "/" -> <<"%", "2", "F">>
    [] c = "%" -> <<"%", "2", "5">>
    [] c = "@" -> <<"%", "4", "0">>
    [] c = "&" -> <<"%", "2", "6">>
    [] c = "=" -> <<"%", "3", "D">>
    [] c = "+" -> <<"%", "2", "B">>
    [] c = "?" -> <<"%", "3", "F">>

FormEncodeChar(c) ==
  IF c \in FormSafeChars THEN <<c>>
  ELSE IF c = " " THEN <<"+">> ELSE PercentCode(c)

RECURSIVE FormEncode(_)
FormEncode(str) ==
  IF str = <<>> THEN <<>>
  ELSE FormEncodeChar(Head(str)) \o FormEncode(Tail(str))

\* mutant: queryParams.set(name, value), which overwrites an entry of the
\* same name
QSet(q, name, value) ==
  IF \E i \in 1..Len(q) : q[i].name = name
  THEN [i \in 1..Len(q) |->
          IF q[i].name = name THEN [name |-> name, value |-> value] ELSE q[i]]
  ELSE Append(q, [name |-> name, value |-> value])

\* queryParams.append(name, value)
QAppend(q, name, value) == Append(q, [name |-> name, value |-> value])

RECURSIVE QToString(_)
\* queryParams.toString()
QToString(q) ==
  IF q = <<>> THEN <<>>
  ELSE FormEncode(q[1].name) \o <<"=">> \o FormEncode(q[1].value)
         \o (IF Len(q) > 1 THEN <<"&">> \o QToString(Tail(q)) ELSE <<>>)

RECURSIVE AppendParams(_, _)
\* Object.entries(params).forEach(([key, value]) => append(key, String(value)))
AppendParams(q, params) ==
  IF params = <<>> THEN q
  ELSE AppendParams(QAppend(q, params[1].key, JSString(params[1].val)),
                    Tail(params))

S_providers ==
  <<"/", "v", "2", "/", "d", "o", "m", "a", "i", "n", "T", "e", "m", "p", "l",
    "a", "t", "e", "s", "/", "p", "r", "o", "v", "i", "d", "e", "r", "s", "/">>
S_services == <<"/", "s", "e", "r", "v", "i", "c", "e", "s", "/">>
S_apply == <<"/", "a", "p", "p", "l", "y">>
S_redirect_uri == <<"r", "e", "d", "i", "r", "e", "c", "t", "_", "u", "r", "i">>
S_state == <<"s", "t", "a", "t", "e">>
S_force == <<"f", "o", "r", "c", "e">>

\* `${base}/v2/domainTemplates/providers/${providerId}/services/${serviceId}/apply`
ApplyPath(base, providerId, serviceId) ==
  base \o S_providers \o providerId \o S_services \o serviceId \o S_apply

\* mutant: if (host !== undefined) queryParams.append('host', host)
AppendHostDefined(q, host) == IF host.def THEN QAppend(q, S_host, host.s) ELSE q

\* if (host) queryParams.append('host', host)
AppendHost(q, host) == IF TruthyStr(host) THEN QAppend(q, S_host, host.s) ELSE q

\* the query of generateSyncURL: domain, host, then the params
SyncQuery(options) ==
  LET q1 == QAppend(<<>>, S_domain, options.domain)
      q2 == AppendHost(q1, options.host)
  IN AppendParams(q2, options.params)

generateSyncURL(settings, options) ==
  ApplyPath(settings.urlAPI, options.providerId, options.serviceId)
    \o <<"?">> \o QToString(SyncQuery(options))

\* mutant: force is appended with the flag's value whenever the flag is set
AppendOAuthForceValue(q, options) ==
  LET q3 == IF TruthyStr(options.redirectUri)
            THEN QAppend(q, S_redirect_uri, options.redirectUri.s) ELSE q
      q4 == IF TruthyStr(options.state)
            THEN QAppend(q3, S_state, options.state.s) ELSE q3
  IN IF options.forcePermission.def
     THEN QAppend(q4, S_force, IF options.forcePermission.b THEN S_true ELSE S_false)
     ELSE q4

\* if (redirectUri) append; if (state) append; if (forcePermission) append
AppendOAuth(q, options) ==
  LET q3 == IF TruthyStr(options.redirectUri)
            THEN QAppend(q, S_redirect_uri, options.redirectUri.s) ELSE q
      q4 == IF TruthyStr(options.state)
            THEN QAppend(q3, S_state, options.state.s) ELSE q3
  IN IF TruthyBool(options.forcePermission)
     THEN QAppend(q4, S_force, S_true) ELSE q4

\* the query of generateAsyncURL
AsyncQuery(options) ==
  LET q1 == QAppend(<<>>, S_domain, options.domain)
      q2 == AppendHost(q1, options.host)
      q5 == AppendOAuth(q2, options)
  IN AppendParams(q5, options.params)

\* mutant: only the asyncEnabled flag is tested
AsyncUnsupportedFlagOnly(settings) == ~TruthyBool(settings.asyncEnabled)

\* !settings.asyncEnabled || !settings.urlAsyncAPI
AsyncUnsupported(settings) ==
  ~TruthyBool(settings.asyncEnabled) \/ ~TruthyStr(settings.urlAsyncAPI)

\* generateAsyncURL: NoStr is the null result
generateAsyncURL(settings, options) ==
  IF AsyncUnsupported(settings) THEN NoStr
  ELSE SomeStr(ApplyPath(settings.urlAsyncAPI.s, options.providerId,
                         options.serviceId)
                 \o <<"?">> \o QToString(AsyncQuery(options)))

----------------------------------------------------------------------------
(* The HTTP collaborator (axios.get) and the operations that await it.     *)
(* net.log is the sequence of requests made and outcomes received by the   *)
(* running call; net.wait names the await the call is suspended at.        *)

\* axios.get(url) is called
HttpGet(url) == [t |-> "GET", url |-> url]
\* the promise resolves with a response
Resp(status, data) == [t |-> "resp", status |-> status, data |-> data]
\* the promise rejects with an Error carrying a message
Failure(message) == [t |-> "fail", message |-> message]
\* a response without a body
NoBody == [def |-> FALSE]

\* DomainConnectResult values
ResultOk == [success |-> TRUE, error |-> NoStr, redirectUrl |-> NoStr,
             asyncStatusUrl |-> NoStr]
ResultError(message) ==
  [success |-> FALSE, error |-> SomeStr(message), redirectUrl |-> NoStr,
   asyncStatusUrl |-> NoStr]
ResultRedirect(url) ==
  [success |-> TRUE, error |-> NoStr, redirectUrl |-> SomeStr(url),
   asyncStatusUrl |-> NoStr]

S_sync_unsupported ==
  <<"S", "y", "n", "c", "h", "r", "o", "n", "o", "u", "s", " ", "m", "o",
    "d", "e", " ", "n", "o", "t", " ", "s", "u", "p", "p", "o", "r", "t",
    "e", "d", " ", "b", "y", " ", "D", "N", "S", " ", "p", "r", "o", "v",
    "i", "d", "e", "r">>
S_async_unsupported ==
  <<"A", "s", "y", "n", "c", "h", "r", "o", "n", "o", "u", "s", " ", "m",
    "o", "d", "e", " ", "n", "o", "t", " ", "s", "u", "p", "p", "o", "r",
    "t", "e", "d", " ", "b", "y", " ", "D", "N", "S", " ", "p", "r", "o",
    "v", "i", "d", "e", "r">>
S_in_progress ==
  <<"O", "p", "e", "r", "a", "t", "i", "o", "n", " ", "s", "t", "i", "l",
    "l", " ", "i", "n", " ", "p", "r", "o", "g", "r", "e", "s", "s">>
S_unexpected_status ==
  <<"U", "n", "e", "x", "p", "e", "c", "t", "e", "d", " ", "s", "t", "a",
    "t", "u", "s", " ", "c", "o", "d", "e", ":", " ">>

\* `Unexpected status code: ${response.status}`
UnexpectedStatus(status) == S_unexpected_status \o IntString(status)

\* mutant: the catch returns { success: false } without a message
CaughtResultSilent(outcome) ==
  [success |-> FALSE, error |-> NoStr, redirectUrl |-> NoStr,
   asyncStatusUrl |-> NoStr]

\* catch (error): error instanceof Error ? error.message : 'Unknown error'
CaughtResult(outcome) == ResultError(outcome.message)

\* mutant: only an explicit syncEnabled = false counts as unsupported
SyncUnsupportedExplicit(settings) == settings.syncEnabled = SomeBool(FALSE)

\* !settings.syncEnabled
SyncUnsupported(settings) == ~TruthyBool(settings.syncEnabled)

\* the URL applyTemplateSynchronous builds before its request
ApplySyncUrl(settings, options) ==
  LET apiUrl == ApplyPath(settings.urlAPI, options.providerId, options.serviceId)
      q1 == QAppend(<<>>, S_domain, options.domain)
      q2 == IF TruthyStr(options.host) THEN QAppend(q1, S_host, options.host.s)
            ELSE q1
      q3 == AppendParams(q2, options.params)
  IN apiUrl \o <<"?">> \o QToString(q3)

\* mutant: 202 is reported as still in progress, as the status check does
ApplySyncResultLikeCheck(outcome) ==
  IF outcome.t = "fail" THEN CaughtResult(outcome)
  ELSE IF outcome.status = 200 THEN ResultOk
  ELSE IF outcome.status = 202 THEN ResultError(S_in_progress)
  ELSE ResultError(UnexpectedStatus(outcome.status))

\* applyTemplateSynchronous after its await: the status mapping, the catch
ApplySyncResult(outcome) ==
  IF outcome.t = "fail" THEN CaughtResult(outcome)
  ELSE IF outcome.status = 200 THEN ResultOk
  ELSE ResultError(UnexpectedStatus(outcome.status))

\* checkAsyncStatus after its await: the status mapping, the catch
CheckStatusResult(outcome) ==
  IF outcome.t = "fail" THEN CaughtResult(outcome)
  ELSE IF outcome.status = 200 THEN ResultOk
  ELSE IF outcome.status = 202 THEN ResultError(S_in_progress)
  ELSE ResultError(UnexpectedStatus(outcome.status))

\* mutant: the redirect URL carries no redirect_uri, state or force entry
ApplyAsyncUrlNoOAuth(settings, options) ==
  LET apiUrl == settings.urlAsyncAPI.s \o S_providers \o options.providerId
                  \o S_services \o options.serviceId \o S_apply
      q1 == QAppend(<<>>, S_domain, options.domain)
      q2 == IF TruthyStr(options.host) THEN QAppend(q1, S_host, options.host.s)
            ELSE q1
  IN apiUrl \o <<"?">> \o QToString(AppendParams(q2, options.params))

\* the URL applyTemplateAsynchronous builds
ApplyAsyncUrl(settings, options) ==
  LET apiUrl == settings.urlAsyncAPI.s \o S_providers \o options.providerId
                  \o S_services \o options.serviceId \o S_apply
      q1 == QAppend(<<>>, S_domain, options.domain)
      q2 == IF TruthyStr(options.host) THEN QAppend(q1, S_host, options.host.s)
            ELSE q1
      q3 == IF TruthyStr(options.redirectUri)
            THEN QAppend(q2, S_redirect_uri, options.redirectUri.s) ELSE q2
      q4 == IF TruthyStr(options.state)
            THEN QAppend(q3, S_state, options.state.s) ELSE q3
      q5 == IF TruthyBool(options.forcePermission)
            THEN QAppend(q4, S_force, S_true) ELSE q4
  IN apiUrl \o <<"?">> \o QToString(AppendParams(q5, options.params))

\* applyTemplateAsynchronous: no await, the result is built at once
applyTemplateAsynchronous(settings, options) ==
  IF ~TruthyBool(settings.asyncEnabled) \/ ~TruthyStr(settings.urlAsyncAPI)
  THEN ResultError(S_async_unsupported)
  ELSE ResultRedirect(ApplyAsyncUrl(settings, options))

\* a response body that is an object
Body(obj) == [def |-> TRUE, obj |-> obj]

\* the value null, and a value that is not null
Null == [def |-> FALSE]
Some(v) == [def |-> TRUE, v |-> v]

S_https ==
  <<"h", "t", "t", "p", "s", ":", "/", "/">>
S_domainconnect ==
  <<"_", "d", "o", "m", "a", "i", "n", "c", "o", "n", "n", "e", "c", "t",
    ".">>
S_providers_path ==
  <<"/", "v", "2", "/", "d", "o", "m", "a", "i", "n", "T", "e", "m", "p",
    "l", "a", "t", "e", "s", "/", "p", "r", "o", "v", "i", "d", "e", "r",
    "s">>
S_well_known ==
  <<"/", ".", "w", "e", "l", "l", "-", "k", "n", "o", "w", "n", "/", "d",
    "o", "m", "a", "i", "n", "-", "c", "o", "n", "n", "e", "c", "t", ".",
    "j", "s", "o", "n">>

\* `https://${dnsQuery}/v2/domainTemplates/providers`, dnsQuery being
\* `_domainconnect.${domain}`
PrimaryUrl(domain) == S_https \o (S_domainconnect \o domain) \o S_providers_path

\* `https://${domain}/.well-known/domain-connect.json`
FallbackUrl(domain) == S_https \o domain \o S_well_known

\* mutant: any response with a body is taken as settings
HasBodyAnyStatus(outcome) == outcome.t = "resp" /\ outcome.data.def

\* response.status === 200 && response.data, of a request that resolved
OkWithBody(outcome) ==
  /\ outcome.t = "resp"
  /\ outcome.status = 200
  /\ outcome.data.def

\* the object discoverSettings returns: four fields read off response.data
DiscoveredSettings(data) ==
  [urlAPI |-> data.obj.urlAPI, syncEnabled |-> data.obj.syncEnabled,
   asyncEnabled |-> data.obj.asyncEnabled, urlAsyncAPI |-> data.obj.urlAsyncAPI]

\* mutant: no try/catch around the primary request, its rejection reaches
\* the outer catch
AfterPrimaryNoInnerCatch(outcome) ==
  IF OkWithBody(outcome) THEN "return"
  ELSE IF outcome.t = "fail" THEN "null"
  ELSE "fallback"

\* where discoverSettings goes after the primary request: the return of
\* line 167, or (the if not taken, or the rejection caught at line 174) on
\* to the alternative method
AfterPrimary(outcome) ==
  IF OkWithBody(outcome) THEN "return" ELSE "fallback"

\* discoverSettings after the alternative request: settings, or null
FallbackResult(outcome) ==
  IF OkWithBody(outcome) THEN Some(DiscoveredSettings(outcome.data)) ELSE Null

\* `${settings.urlAPI}/v2/domainTemplates/providers/${providerId}/services/${serviceId}`
TemplateUrl(settings, providerId, serviceId) ==
  settings.urlAPI \o S_providers \o providerId \o S_services \o serviceId

\* mutant: the body is returned whatever the status
TemplateResultAnyStatus(outcome) ==
  IF HasBodyAnyStatus(outcome) THEN Some(outcome.data.obj) ELSE Null

\* getTemplate after its await: response.data as the template, or null
TemplateResult(outcome) ==
  IF OkWithBody(outcome) THEN Some(outcome.data.obj) ELSE Null

----------------------------------------------------------------------------
(* splitHostname, and the string methods it shares with the provider       *)
(* lookup: split('.'), join('.'), slice.                                   *)

LowerLetters ==
  {"a", "b", "c", "d", "e", "f", "g", "h", "i", "j", "k", "l", "m", "n", "o",
   "p", "q", "r", "s", "t", "u", "v", "w", "x", "y", "z"}

\* index of the first '.' of s, or 0
FirstDot(s) ==
  IF \E i \in 1..Len(s) : s[i] = "."
  THEN CHOOSE i \in 1..Len(s) : s[i] = "." /\ \A j \in 1..(i - 1) : s[j] # "."
  ELSE 0

RECURSIVE SplitDots(_)
\* s.split('.')
SplitDots(s) ==
  IF FirstDot(s) = 0 THEN <<s>>
  ELSE <<SubSeq(s, 1, FirstDot(s) - 1)>> \o
       SplitDots(SubSeq(s, FirstDot(s) + 1, Len(s)))

RECURSIVE JoinDots(_)
\* parts.join('.')
JoinDots(parts) ==
  IF parts = <<>> THEN <<>>
  ELSE IF Len(parts) = 1 THEN parts[1]
  ELSE parts[1] \o <<".">> \o JoinDots(Tail(parts))

\* parts.slice(-n)
SliceLast(parts, n) ==
  IF n >= Len(parts) THEN parts
  ELSE SubSeq(parts, Len(parts) - n + 1, Len(parts))

\* parts.slice(0, -n)
SliceFront(parts, n) ==
  IF n >= Len(parts) THEN <<>> ELSE SubSeq(parts, 1, Len(parts) - n)

\* the alternatives of the group (co|com|net|org|gov|edu)
SecondLevelNames ==
  {<<"c", "o">>, <<"c", "o", "m">>, <<"n", "e", "t">>, <<"o", "r", "g">>,
   <<"g", "o", "v">>, <<"e", "d", "u">>}

\* tld matches ^alt\.cc$ for the alternative alt and the character class cls
MatchesSecondLevel(tld, alt, cls) ==
  /\ Len(tld) = Len(alt) + 3
  /\ SubSeq(tld, 1, Len(alt)) = alt
  /\ tld[Len(alt) + 1] = "."
  /\ tld[Len(alt) + 2] \in cls
  /\ tld[Len(alt) + 3] \in cls

\* mutant: the country code is matched whatever its case ([a-zA-Z]{2})
IsSecondLevelAnyCase(tld) ==
  \E alt \in SecondLevelNames :
    MatchesSecondLevel(tld, alt, IdentChars \ {"0", "1", "2", "3", "4", "5",
                                                "6", "7", "8", "9", "_"})

\* tld.match(/^(co|com|net|org|gov|edu)\.[a-z]{2}$/)
IsSecondLevel(tld) ==
  \E alt \in SecondLevelNames : MatchesSecondLevel(tld, alt, LowerLetters)

\* splitHostname(hostname): { domain, subdomain? }
splitHostname(hostname) ==
  LET parts == SplitDots(hostname) IN
  IF Len(parts) > 2
  THEN IF IsSecondLevel(JoinDots(SliceLast(parts, 2)))
       THEN IF Len(parts) > 3
            THEN [domain |-> JoinDots(SliceLast(parts, 3)),
                  subdomain |-> SomeStr(JoinDots(SliceFront(parts, 3)))]
            ELSE [domain |-> hostname, subdomain |-> NoStr]
       ELSE [domain |-> JoinDots(SliceLast(parts, 2)),
             subdomain |-> SomeStr(JoinDots(SliceFront(parts, 2)))]
  ELSE [domain |-> hostname, subdomain |-> NoStr]

----------------------------------------------------------------------------
(* The DNS provider directory and the lookup of a domain's provider.       *)

\* the directory, in the order Object.entries iterates it (insertion order)
dnsProviders == <<
  \* 'Cloudflare'
  [name |->
      <<"C", "l", "o", "u", "d", "f", "l", "a", "r", "e">>,
   domains |-> <<
      <<"c", "l", "o", "u", "d", "f", "l", "a", "r", "e", ".", "c", "o",
        "m">>,
      <<"c", "l", "o", "u", "d", "f", "l", "a", "r", "e", "-", "d", "n",
        "s", ".", "c", "o", "m">>>>,
   loginUrl |->
      <<"h", "t", "t", "p", "s", ":", "/", "/", "d", "a", "s", "h", ".",
        "c", "l", "o", "u", "d", "f", "l", "a", "r", "e", ".", "c", "o",
        "m", "/", "l", "o", "g", "i", "n">>],
  \* 'GoDaddy'
  [name |->
      <<"G", "o", "D", "a", "d", "d", "y">>,
   domains |-> <<
      <<"d", "o", "m", "a", "i", "n", "c", "o", "n", "t", "r", "o", "l",
        ".", "c", "o", "m">>,
      <<"g", "o", "d", "a", "d", "d", "y", ".", "c", "o", "m">>>>,
   loginUrl |->
      <<"h", "t", "t", "p", "s", ":", "/", "/", "s", "s", "o", ".", "g",
        "o", "d", "a", "d", "d", "y", ".", "c", "o", "m">>],
  \* 'Namecheap'
  [name |->
      <<"N", "a", "m", "e", "c", "h", "e", "a", "p">>,
   domains |-> <<
      <<"r", "e", "g", "i", "s", "t", "r", "a", "r", "-", "s", "e", "r",
        "v", "e", "r", "s", ".", "c", "o", "m">>,
      <<"n", "a", "m", "e", "c", "h", "e", "a", "p", ".", "c", "o", "m">>>>,
   loginUrl |->
      <<"h", "t", "t", "p", "s", ":", "/", "/", "w", "w", "w", ".", "n",
        "a", "m", "e", "c", "h", "e", "a", "p", ".", "c", "o", "m", "/",
        "m", "y", "a", "c", "c", "o", "u", "n", "t", "/", "l", "o", "g",
        "i", "n", "/">>],
  \* 'Google Domains'
  [name |->
      <<"G", "o", "o", "g", "l", "e", " ", "D", "o", "m", "a", "i", "n",
        "s">>,
   domains |-> <<
      <<"g", "o", "o", "g", "l", "e", "d", "o", "m", "a", "i", "n", "s",
        ".", "c", "o", "m">>,
      <<"d", "o", "m", "a", "i", "n", "s", ".", "g", "o", "o", "g", "l",
        "e", ".", "c", "o", "m">>>>,
   loginUrl |->
      <<"h", "t", "t", "p", "s", ":", "/", "/", "d", "o", "m", "a", "i",
        "n", "s", ".", "g", "o", "o", "g", "l", "e", ".", "c", "o", "m",
        "/", "r", "e", "g", "i", "s", "t", "r", "a", "r", "/", "l", "o",
        "g", "i", "n">>],
  \* 'Amazon Route 53'
  [name |->
      <<"A", "m", "a", "z", "o", "n", " ", "R", "o", "u", "t", "e", " ",
        "5", "3">>,
   domains |-> <<
      <<"a", "w", "s", "d", "n", "s">>>>,
   loginUrl |->
      <<"h", "t", "t", "p", "s", ":", "/", "/", "c", "o", "n", "s", "o",
        "l", "e", ".", "a", "w", "s", ".", "a", "m", "a", "z", "o", "n",
        ".", "c", "o", "m", "/", "r", "o", "u", "t", "e", "5", "3", "/">>],
  \* 'DigitalOcean'
  [name |->
      <<"D", "i", "g", "i", "t", "a", "l", "O", "c", "e", "a", "n">>,
   domains |-> <<
      <<"d", "i", "g", "i", "t", "a", "l", "o", "c", "e", "a", "n", ".",
        "c", "o", "m">>>>,
   loginUrl |->
      <<"h", "t", "t", "p", "s", ":", "/", "/", "c", "l", "o", "u", "d",
        ".", "d", "i", "g", "i", "t", "a", "l", "o", "c", "e", "a", "n",
        ".", "c", "o", "m", "/", "l", "o", "g", "i", "n">>],
  \* 'Bluehost'
  [name |->
      <<"B", "l", "u", "e", "h", "o", "s", "t">>,
   domains |-> <<
      <<"b", "l", "u", "e", "h", "o", "s", "t", ".", "c", "o", "m">>>>,
   loginUrl |->
      <<"h", "t", "t", "p", "s", ":", "/", "/", "m", "y", ".", "b", "l",
        "u", "e", "h", "o", "s", "t", ".", "c", "o", "m", "/", "h", "o",
        "s", "t", "i", "n", "g", "/", "l", "o", "g", "i", "n">>],
  \* 'HostGator'
  [name |->
      <<"H", "o", "s", "t", "G", "a", "t", "o", "r">>,
   domains |-> <<
      <<"h", "o", "s", "t", "g", "a", "t", "o", "r", ".", "c", "o", "m">>>>,
   loginUrl |->
      <<"h", "t", "t", "p", "s", ":", "/", "/", "p", "o", "r", "t", "a",
        "l", ".", "h", "o", "s", "t", "g", "a", "t", "o", "r", ".", "c",
        "o", "m", "/", "l", "o", "g", "i", "n">>],
  \* 'DreamHost'
  [name |->
      <<"D", "r", "e", "a", "m", "H", "o", "s", "t">>,
   domains |-> <<
      <<"d", "r", "e", "a", "m", "h", "o", "s", "t", ".", "c", "o", "m">>>>,
   loginUrl |->
      <<"h", "t", "t", "p", "s", ":", "/", "/", "p", "a", "n", "e", "l",
        ".", "d", "r", "e", "a", "m", "h", "o", "s", "t", ".", "c", "o",
        "m", "/", "l", "o", "g", "i", "n">>],
  \* 'Name.com'
  [name |->
      <<"N", "a", "m", "e", ".", "c", "o", "m">>,
   domains |-> <<
      <<"n", "a", "m", "e", ".", "c", "o", "m">>>>,
   loginUrl |->
      <<"h", "t", "t", "p", "s", ":", "/", "/", "w", "w", "w", ".", "n",
        "a", "m", "e", ".", "c", "o", "m", "/", "a", "c", "c", "o", "u",
        "n", "t", "/", "l", "o", "g", "i", "n">>],
  \* 'OVH'
  [name |->
      <<"O", "V", "H">>,
   domains |-> <<
      <<"o", "v", "h", ".", "n", "e", "t">>>>,
   loginUrl |->
      <<"h", "t", "t", "p", "s", ":", "/", "/", "w", "w", "w", ".", "o",
        "v", "h", ".", "c", "o", "m", "/", "a", "u", "t", "h", "/">>],
  \* '1&1 IONOS'
  [name |->
      <<"1", "&", "1", " ", "I", "O", "N", "O", "S">>,
   domains |-> <<
      <<"1", "a", "n", "d", "1", ".", "c", "o", "m">>,
      <<"i", "o", "n", "o", "s", ".", "c", "o", "m">>>>,
   loginUrl |->
      <<"h", "t", "t", "p", "s", ":", "/", "/", "l", "o", "g", "i", "n",
        ".", "i", "o", "n", "o", "s", ".", "c", "o", "m">>]
>>

UpperLetterSeq ==
  <<"A", "B", "C", "D", "E", "F", "G", "H", "I", "J", "K", "L", "M", "N", "O",
    "P", "Q", "R", "S", "T", "U", "V", "W", "X", "Y", "Z">>
LowerLetterSeq ==
  <<"a", "b", "c", "d", "e", "f", "g", "h", "i", "j", "k", "l", "m", "n", "o",
    "p", "q", "r", "s", "t", "u", "v", "w", "x", "y", "z">>

\* s.toLowerCase()
ToLowerCase(s) ==
  [i \in 1..Len(s) |->
     IF \E k \in 1..Len(UpperLetterSeq) : UpperLetterSeq[k] = s[i]
     THEN LowerLetterSeq[CHOOSE k \in 1..Len(UpperLetterSeq) : UpperLetterSeq[k] = s[i]]
     ELSE s[i]]

\* s.includes(sub)
Includes(s, sub) ==
  \E i \in 1..(Len(s) - Len(sub) + 1) : SubSeq(s, i, i + Len(sub) - 1) = sub

\* an inherited property of the directory object, read as { loginUrl }
UndefinedUrl == [def |-> FALSE, undefined |-> TRUE]

\* getProviderLoginUrl(provider): the login URL, or null (NoStr)
getProviderLoginUrl(provider) ==
  IF \E k \in 1..Len(dnsProviders) : dnsProviders[k].name = provider
  THEN SomeStr(dnsProviders[CHOOSE k \in 1..Len(dnsProviders) :
                              dnsProviders[k].name = provider].loginUrl)
  ELSE IF ProtoGet(provider) # Undefined THEN UndefinedUrl
  ELSE NoStr

\* domains.some(domain => lowerNameservers.some(ns => ns.includes(domain.toLowerCase())))
EntryMatches(entry, lowerNameservers) ==
  \E d \in 1..Len(entry.domains), i \in 1..Len(lowerNameservers) :
    Includes(lowerNameservers[i], ToLowerCase(entry.domains[d]))

RECURSIVE FirstMatchByNameserver(_, _, _)
\* mutant: the nameservers are walked first, the directory for each of them
FirstMatchByNameserver(directory, lowerNameservers, k) ==
  IF lowerNameservers = <<>> THEN NoStr
  ELSE LET hits == {e \in 1..Len(directory) :
                      EntryMatches(directory[e], <<Head(lowerNameservers)>>)} IN
       IF hits # {}
       THEN SomeStr(directory[CHOOSE e \in hits : \A f \in hits : e <= f].name)
       ELSE FirstMatchByNameserver(directory, Tail(lowerNameservers), k)

RECURSIVE FirstMatch(_, _, _)
\* the for loop over the directory, from entry k on: the first entry that
\* matches, or none
FirstMatch(directory, lowerNameservers, k) ==
  IF k > Len(directory) THEN NoStr
  ELSE IF EntryMatches(directory[k], lowerNameservers)
  THEN SomeStr(directory[k].name)
  ELSE FirstMatch(directory, lowerNameservers, k + 1)

\* mutant: the base domain is taken from the last nameserver
BaseDomainOfLast(lowerNameservers) ==
  LET nsParts == SplitDots(lowerNameservers[Len(lowerNameservers)]) IN
  IF Len(nsParts) >= 2
  THEN SomeStr(nsParts[Len(nsParts) - 1] \o <<".">> \o nsParts[Len(nsParts)])
  ELSE NoStr

\* the last two labels of the first nameserver, or none
BaseDomain(lowerNameservers) ==
  LET nsParts == SplitDots(lowerNameservers[1]) IN
  IF Len(nsParts) >= 2
  THEN SomeStr(nsParts[Len(nsParts) - 1] \o <<".">> \o nsParts[Len(nsParts)])
  ELSE NoStr

\* identifyDnsProvider(nameservers): NoStr is the null result
identifyDnsProvider(nameservers) ==
  IF nameservers = <<>> THEN NoStr
  ELSE LET lowerNameservers ==
             [i \in 1..Len(nameservers) |-> ToLowerCase(nameservers[i])]
           found == FirstMatch(dnsProviders, lowerNameservers, 1)
       IN IF found.def THEN found ELSE BaseDomain(lowerNameservers)

S_Unknown == <<"U", "n", "k", "n", "o", "w", "n">>

\* dns.resolveNs(domain) is called
ResolveNs(domain) == [t |-> "resolveNs", domain |-> domain]

\* the promise resolves with the nameservers
Nameservers(list) == [t |-> "ns", nameservers |-> list]

\* mutant: no catch, the failure of the resolution rejects the call
ProviderInfoUncaught(domain, outcome) ==
  IF outcome.t = "fail"
  THEN [rejected |-> outcome.message]
  ELSE LET provider == identifyDnsProvider(outcome.nameservers) IN
       [domain |-> domain, nameservers |-> outcome.nameservers,
        provider |-> IF TruthyStr(provider) THEN provider.s ELSE S_Unknown,
        loginUrl |-> IF TruthyStr(provider)
                     THEN getProviderLoginUrl(provider.s) ELSE NoStr,
        error |-> NoStr]

\* getDnsProviderInfo after its await
ProviderInfo(domain, outcome) ==
  IF outcome.t = "fail"
  THEN [domain |-> domain, nameservers |-> <<>>, provider |-> S_Unknown,
        loginUrl |-> NoStr, error |-> SomeStr(outcome.message)]
  ELSE LET provider == identifyDnsProvider(outcome.nameservers)
           loginUrl == IF TruthyStr(provider)
                       THEN getProviderLoginUrl(provider.s) ELSE NoStr
       IN [domain |-> domain, nameservers |-> outcome.nameservers,
           provider |-> IF TruthyStr(provider) THEN provider.s ELSE S_Unknown,
           loginUrl |-> loginUrl, error |-> NoStr]

----------------------------------------------------------------------------
(* The provider directory of the built client (dist/index.d.ts): an array  *)
(* of entries, walked in array order by its identifyDnsProvider.  Of an    *)
(* entry the lookup reads name and domains.                                *)

dnsProvidersDist == <<
  \* '1&1 IONOS'
  [name |->
      <<"1", "&", "1", " ", "I", "O", "N", "O", "S">>,
   domains |-> <<
      <<"1", "a", "n", "d", "1", ".", "c", "o", "m">>,
      <<"i", "o", "n", "o", "s", ".", "c", "o", "m">>>>],
  \* '123-Reg'
  [name |->
      <<"1", "2", "3", "-", "R", "e", "g">>,
   domains |-> <<
      <<"1", "2", "3", "-", "r", "e", "g", ".", "c", "o", "m">>>>],
  \* 'A2Hosting'
  [name |->
      <<"A", "2", "H", "o", "s", "t", "i", "n", "g">>,
   domains |-> <<
      <<"a", "2", "h", "o", "s", "t", "i", "n", "g", ".", "c", "o", "m">>>>],
  \* 'Amazon Route 53'
  [name |->
      <<"A", "m", "a", "z", "o", "n", " ", "R", "o", "u", "t", "e", " ",
        "5", "3">>,
   domains |-> <<
      <<"a", "w", "s", "d", "n", "s">>,
      <<"a", "w", "s", ".", "a", "m", "a", "z", "o", "n", ".", "c", "o",
        "m">>>>],
  \* 'Arsys'
  [name |->
      <<"A", "r", "s", "y", "s">>,
   domains |-> <<
      <<"a", "r", "s", "y", "s", ".", "n", "e", "t">>>>],
  \* 'Aruba IT'
  [name |->
      <<"A", "r", "u", "b", "a", " ", "I", "T">>,
   domains |-> <<
      <<"a", "r", "u", "b", "a", ".", "i", "t">>>>],
  \* 'Bluehost'
  [name |->
      <<"B", "l", "u", "e", "h", "o", "s", "t">>,
   domains |-> <<
      <<"b", "l", "u", "e", "h", "o", "s", "t", ".", "c", "o", "m">>>>],
  \* 'Cloudflare'
  [name |->
      <<"C", "l", "o", "u", "d", "f", "l", "a", "r", "e">>,
   domains |-> <<
      <<"c", "l", "o", "u", "d", "f", "l", "a", "r", "e", ".", "c", "o",
        "m">>,
      <<"c", "l", "o", "u", "d", "f", "l", "a", "r", "e", "-", "d", "n",
        "s", ".", "c", "o", "m">>>>],
  \* 'Crazy Domains'
  [name |->
      <<"C", "r", "a", "z", "y", " ", "D", "o", "m", "a", "i", "n", "s">>,
   domains |-> <<
      <<"c", "r", "a", "z", "y", "d", "o", "m", "a", "i", "n", "s", ".",
        "c", "o", "m">>>>],
  \* 'DigitalOcean'
  [name |->
      <<"D", "i", "g", "i", "t", "a", "l", "O", "c", "e", "a", "n">>,
   domains |-> <<
      <<"d", "i", "g", "i", "t", "a", "l", "o", "c", "e", "a", "n", ".",
        "c", "o", "m">>>>],
  \* 'DNSimple'
  [name |->
      <<"D", "N", "S", "i", "m", "p", "l", "e">>,
   domains |-> <<
      <<"d", "n", "s", "i", "m", "p", "l", "e", ".", "c", "o", "m">>>>],
  \* 'Domain.com'
  [name |->
      <<"D", "o", "m", "a", "i", "n", ".", "c", "o", "m">>,
   domains |-> <<
      <<"d", "o", "m", "a", "i", "n", ".", "c", "o", "m">>,
      <<"d", "o", "m", "a", "i", "n", "-", "d", "n", "s", ".", "c", "o",
        "m">>>>],
  \* 'DreamHost'
  [name |->
      <<"D", "r", "e", "a", "m", "H", "o", "s", "t">>,
   domains |-> <<
      <<"d", "r", "e", "a", "m", "h", "o", "s", "t", ".", "c", "o", "m">>>>],
  \* 'Dynadot'
  [name |->
      <<"D", "y", "n", "a", "d", "o", "t">>,
   domains |-> <<
      <<"d", "y", "n", "a", "d", "o", "t", ".", "c", "o", "m">>>>],
  \* 'EasyDNS'
  [name |->
      <<"E", "a", "s", "y", "D", "N", "S">>,
   domains |-> <<
      <<"e", "a", "s", "y", "d", "n", "s", ".", "c", "o", "m">>>>],
  \* 'Enom'
  [name |->
      <<"E", "n", "o", "m">>,
   domains |-> <<
      <<"e", "n", "o", "m", ".", "c", "o", "m">>>>],
  \* 'Fasthosts'
  [name |->
      <<"F", "a", "s", "t", "h", "o", "s", "t", "s">>,
   domains |-> <<
      <<"f", "a", "s", "t", "h", "o", "s", "t", "s", ".", "c", "o", ".",
        "u", "k">>>>],
  \* 'Gandi'
  [name |->
      <<"G", "a", "n", "d", "i">>,
   domains |-> <<
      <<"g", "a", "n", "d", "i", ".", "n", "e", "t">>>>],
  \* 'GoDaddy'
  [name |->
      <<"G", "o", "D", "a", "d", "d", "y">>,
   domains |-> <<
      <<"d", "o", "m", "a", "i", "n", "c", "o", "n", "t", "r", "o", "l",
        ".", "c", "o", "m">>,
      <<"g", "o", "d", "a", "d", "d", "y", ".", "c", "o", "m">>>>],
  \* 'Hetzner'
  [name |->
      <<"H", "e", "t", "z", "n", "e", "r">>,
   domains |-> <<
      <<"h", "e", "t", "z", "n", "e", "r", ".", "c", "o", "m">>>>],
  \* 'Home.pl'
  [name |->
      <<"H", "o", "m", "e", ".", "p", "l">>,
   domains |-> <<
      <<"h", "o", "m", "e", ".", "p", "l">>>>],
  \* 'HostGator'
  [name |->
      <<"H", "o", "s", "t", "G", "a", "t", "o", "r">>,
   domains |-> <<
      <<"h", "o", "s", "t", "g", "a", "t", "o", "r", ".", "c", "o", "m">>>>],
  \* 'Hostgator BR'
  [name |->
      <<"H", "o", "s", "t", "g", "a", "t", "o", "r", " ", "B", "R">>,
   domains |-> <<
      <<"h", "o", "s", "t", "g", "a", "t", "o", "r", ".", "c", "o", "m",
        ".", "b", "r">>>>],
  \* 'Hostinger'
  [name |->
      <<"H", "o", "s", "t", "i", "n", "g", "e", "r">>,
   domains |-> <<
      <<"h", "o", "s", "t", "i", "n", "g", "e", "r", ".", "c", "o", "m">>>>],
  \* 'Hover'
  [name |->
      <<"H", "o", "v", "e", "r">>,
   domains |-> <<
      <<"h", "o", "v", "e", "r", ".", "c", "o", "m">>>>],
  \* 'Inmotion Hosting'
  [name |->
      <<"I", "n", "m", "o", "t", "i", "o", "n", " ", "H", "o", "s", "t",
        "i", "n", "g">>,
   domains |-> <<
      <<"i", "n", "m", "o", "t", "i", "o", "n", "h", "o", "s", "t", "i",
        "n", "g", ".", "c", "o", "m">>>>],
  \* 'IONOS'
  [name |->
      <<"I", "O", "N", "O", "S">>,
   domains |-> <<
      <<"i", "o", "n", "o", "s", ".", "c", "o", "m">>>>],
  \* 'iwantmyname'
  [name |->
      <<"i", "w", "a", "n", "t", "m", "y", "n", "a", "m", "e">>,
   domains |-> <<
      <<"i", "w", "a", "n", "t", "m", "y", "n", "a", "m", "e", ".", "c",
        "o", "m">>>>],
  \* 'Locaweb'
  [name |->
      <<"L", "o", "c", "a", "w", "e", "b">>,
   domains |-> <<
      <<"l", "o", "c", "a", "w", "e", "b", ".", "c", "o", "m", ".", "b",
        "r">>>>],
  \* 'Name.com'
  [name |->
      <<"N", "a", "m", "e", ".", "c", "o", "m">>,
   domains |-> <<
      <<"n", "a", "m", "e", ".", "c", "o", "m">>>>],
  \* 'NameBright'
  [name |->
      <<"N", "a", "m", "e", "B", "r", "i", "g", "h", "t">>,
   domains |-> <<
      <<"n", "a", "m", "e", "b", "r", "i", "g", "h", "t", ".", "c", "o",
        "m">>>>],
  \* 'Namecheap'
  [name |->
      <<"N", "a", "m", "e", "c", "h", "e", "a", "p">>,
   domains |-> <<
      <<"r", "e", "g", "i", "s", "t", "r", "a", "r", "-", "s", "e", "r",
        "v", "e", "r", "s", ".", "c", "o", "m">>,
      <<"n", "a", "m", "e", "c", "h", "e", "a", "p", ".", "c", "o", "m">>>>],
  \* 'NameSilo'
  [name |->
      <<"N", "a", "m", "e", "S", "i", "l", "o">>,
   domains |-> <<
      <<"n", "a", "m", "e", "s", "i", "l", "o", ".", "c", "o", "m">>>>],
  \* 'Netlify'
  [name |->
      <<"N", "e", "t", "l", "i", "f", "y">>,
   domains |-> <<
      <<"n", "e", "t", "l", "i", "f", "y", ".", "c", "o", "m">>>>],
  \* 'Network Solutions'
  [name |->
      <<"N", "e", "t", "w", "o", "r", "k", " ", "S", "o", "l", "u", "t",
        "i", "o", "n", "s">>,
   domains |-> <<
      <<"n", "e", "t", "w", "o", "r", "k", "s", "o", "l", "u", "t", "i",
        "o", "n", "s", ".", "c", "o", "m">>>>],
  \* 'One.com'
  [name |->
      <<"O", "n", "e", ".", "c", "o", "m">>,
   domains |-> <<
      <<"o", "n", "e", ".", "c", "o", "m">>>>],
  \* 'OpenSrs'
  [name |->
      <<"O", "p", "e", "n", "S", "r", "s">>,
   domains |-> <<
      <<"o", "p", "e", "n", "s", "r", "s", ".", "c", "o", "m">>>>],
  \* 'OVH Global'
  [name |->
      <<"O", "V", "H", " ", "G", "l", "o", "b", "a", "l">>,
   domains |-> <<
      <<"o", "v", "h", ".", "n", "e", "t">>,
      <<"o", "v", "h", ".", "c", "o", "m">>>>],
  \* 'Porkbun'
  [name |->
      <<"P", "o", "r", "k", "b", "u", "n">>,
   domains |-> <<
      <<"p", "o", "r", "k", "b", "u", "n", ".", "c", "o", "m">>>>],
  \* 'Register.com'
  [name |->
      <<"R", "e", "g", "i", "s", "t", "e", "r", ".", "c", "o", "m">>,
   domains |-> <<
      <<"r", "e", "g", "i", "s", "t", "e", "r", ".", "c", "o", "m">>>>],
  \* 'Register.it'
  [name |->
      <<"R", "e", "g", "i", "s", "t", "e", "r", ".", "i", "t">>,
   domains |-> <<
      <<"r", "e", "g", "i", "s", "t", "e", "r", ".", "i", "t">>>>],
  \* 'Registro.br'
  [name |->
      <<"R", "e", "g", "i", "s", "t", "r", "o", ".", "b", "r">>,
   domains |-> <<
      <<"r", "e", "g", "i", "s", "t", "r", "o", ".", "b", "r">>>>],
  \* 'Simply'
  [name |->
      <<"S", "i", "m", "p", "l", "y">>,
   domains |-> <<
      <<"s", "i", "m", "p", "l", "y", ".", "c", "o", "m">>>>],
  \* 'SiteGround'
  [name |->
      <<"S", "i", "t", "e", "G", "r", "o", "u", "n", "d">>,
   domains |-> <<
      <<"s", "i", "t", "e", "g", "r", "o", "u", "n", "d", ".", "c", "o",
        "m">>>>],
  \* 'Spaceship'
  [name |->
      <<"S", "p", "a", "c", "e", "s", "h", "i", "p">>,
   domains |-> <<
      <<"s", "p", "a", "c", "e", "s", "h", "i", "p", ".", "c", "o", "m">>>>],
  \* 'Strato'
  [name |->
      <<"S", "t", "r", "a", "t", "o">>,
   domains |-> <<
      <<"s", "t", "r", "a", "t", "o", ".", "d", "e">>>>],
  \* 'TransIP'
  [name |->
      <<"T", "r", "a", "n", "s", "I", "P">>,
   domains |-> <<
      <<"t", "r", "a", "n", "s", "i", "p", ".", "c", "o", ".", "u", "k">>>>],
  \* 'United Domains DE'
  [name |->
      <<"U", "n", "i", "t", "e", "d", " ", "D", "o", "m", "a", "i", "n",
        "s", " ", "D", "E">>,
   domains |-> <<
      <<"u", "n", "i", "t", "e", "d", "-", "d", "o", "m", "a", "i", "n",
        "s", ".", "d", "e">>>>],
  \* 'Web.com'
  [name |->
      <<"W", "e", "b", ".", "c", "o", "m">>,
   domains |-> <<
      <<"w", "e", "b", ".", "c", "o", "m">>>>],
  \* 'Wix'
  [name |->
      <<"W", "i", "x">>,
   domains |-> <<
      <<"w", "i", "x", ".", "c", "o", "m">>>>],
  \* 'WordPress'
  [name |->
      <<"W", "o", "r", "d", "P", "r", "e", "s", "s">>,
   domains |-> <<
      <<"w", "o", "r", "d", "p", "r", "e", "s", "s", ".", "c", "o", "m">>>>],
  \* 'Xneelo'
  [name |->
      <<"X", "n", "e", "e", "l", "o">>,
   domains |-> <<
      <<"x", "n", "e", "e", "l", "o", ".", "c", "o", ".", "z", "a">>>>]>>

\* identifyDnsProvider(nameservers) of the built client: NoStr is the
\* undefined result
identifyDnsProviderDist(nameservers) ==
  IF nameservers = <<>> THEN NoStr
  ELSE LET lowerNameservers ==
             [i \in 1..Len(nameservers) |-> ToLowerCase(nameservers[i])]
           found == FirstMatch(dnsProvidersDist, lowerNameservers, 1)
       IN IF found.def THEN found ELSE BaseDomain(lowerNameservers)

----------------------------------------------------------------------------
(* parseRedirectUri: new URL(redirectUri) and url.searchParams.get.        *)
(* The URL parser is modelled as far as the function depends on it:        *)
(* whether parsing fails (no scheme; a special scheme without a host) and  *)
(* where the query lies.                                                   *)

S_code == <<"c", "o", "d", "e">>

\* the characters a scheme may hold after its first letter
SchemeChars == (IdentChars \ {"_"}) \cup {"+", "-", "."}
SchemeFirstChars ==
  IdentChars \ {"0", "1", "2", "3", "4", "5", "6", "7", "8", "9", "_"}

\* index of the first occurrence of one of the characters cs in s from
\* index i on, or Len(s) + 1
FirstOf(s, cs, i) ==
  IF \E k \in i..Len(s) : s[k] \in cs
  THEN CHOOSE k \in i..Len(s) : s[k] \in cs /\ \A j \in i..(k - 1) : s[j] \notin cs
  ELSE Len(s) + 1

\* index of the ':' that ends the scheme of uri, or 0 when it has none
SchemeEnd(uri) ==
  LET colon == FirstOf(uri, {":"}, 1) IN
  IF /\ colon <= Len(uri)
     /\ colon > 1
     /\ uri[1] \in SchemeFirstChars
     /\ \A k \in 2..(colon - 1) : uri[k] \in SchemeChars
  THEN colon ELSE 0

\* the schemes whose URLs must name a host
SpecialSchemes ==
  {<<"h", "t", "t", "p">>, <<"h", "t", "t", "p", "s">>, <<"f", "t", "p">>,
   <<"w", "s">>, <<"w", "s", "s">>}

\* index of the first character after the slashes that follow the scheme
AfterSlashes(uri, i) ==
  FirstOf(uri, {uri[k] : k \in 1..Len(uri)} \ {"/", "\\"}, i)

\* new URL(uri) without a base: ok = FALSE is the TypeError it throws,
\* otherwise query is the text between the first '?' and the fragment
UrlParse(uri) ==
  LET colon == SchemeEnd(uri)
      scheme == ToLowerCase(SubSeq(uri, 1, colon - 1))
      hostAt == AfterSlashes(uri, colon + 1)
      hostEnd == FirstOf(uri, {"/", "\\", "?", "#"}, hostAt)
      hash == FirstOf(uri, {"#"}, colon + 1)
      mark == FirstOf(uri, {"?"}, colon + 1)
  IN IF colon = 0 THEN [ok |-> FALSE]
     ELSE IF scheme \in SpecialSchemes /\ hostEnd = hostAt THEN [ok |-> FALSE]
     ELSE [ok |-> TRUE,
           query |-> IF mark < hash THEN SubSeq(uri, mark + 1, hash - 1)
                     ELSE <<>>]

\* the characters whose percent codes the decoder of the model knows
CodedChars == {":", "/", "%", "@", "&", "=", "+", "?"}

RECURSIVE UrlDecode(_)
\* decoding of a name or value of a query: '+' is a space, %XX a byte
UrlDecode(str) ==
  IF str = <<>> THEN <<>>
  ELSE IF Head(str) = "+" THEN <<" ">> \o UrlDecode(Tail(str))
  ELSE IF /\ Head(str) = "%"
          /\ Len(str) >= 3
          /\ \E c \in CodedChars : PercentCode(c) = SubSeq(str, 1, 3)
       THEN <<CHOOSE c \in CodedChars : PercentCode(c) = SubSeq(str, 1, 3)>>
              \o UrlDecode(SubSeq(str, 4, Len(str)))
       ELSE <<Head(str)>> \o UrlDecode(Tail(str))

RECURSIVE SearchParams(_)
\* url.searchParams: the query split at '&', empty pieces skipped, each
\* piece split at its first '='
SearchParams(query) ==
  IF query = <<>> THEN <<>>
  ELSE LET amp == FirstOf(query, {"&"}, 1)
           piece == SubSeq(query, 1, amp - 1)
           eq == FirstOf(piece, {"="}, 1)
           rest == SearchParams(SubSeq(query, amp + 1, Len(query)))
       IN IF piece = <<>> THEN rest
          ELSE <<[name |-> UrlDecode(SubSeq(piece, 1, eq - 1)),
                  value |-> UrlDecode(SubSeq(piece, eq + 1, Len(piece)))]>>
                 \o rest

\* searchParams.get(name): the value of the first entry of that name, or
\* null
SearchGet(params, name) ==
  IF \E i \in 1..Len(params) : params[i].name = name
  THEN SomeStr(params[CHOOSE i \in 1..Len(params) :
                        /\ params[i].name = name
                        /\ \A j \in 1..(i - 1) : params[j].name # name].value)
  ELSE Null

\* mutant: value ?? undefined, an empty value is kept
OrUndefinedNullish(value) == IF value.def THEN value ELSE NoStr

\* value || undefined
OrUndefined(value) == IF TruthyStr(value) THEN value ELSE NoStr

\* the object {}
EmptyObject == [own |-> {}]

\* parseRedirectUri(redirectUri)
parseRedirectUri(redirectUri) ==
  LET url == UrlParse(redirectUri) IN
  IF ~url.ok THEN EmptyObject
  ELSE [own |-> {"state", "code"},
        state |-> OrUndefined(SearchGet(SearchParams(url.query), S_state)),
        code |-> OrUndefined(SearchGet(SearchParams(url.query), S_code))]

----------------------------------------------------------------------------
(* Inputs.                                                                 *)

RECURSIVE SeqsUpTo(_, _)
\* all sequences over S of length at most n
SeqsUpTo(S, n) ==
  IF n = 0 THEN {<<>>}
  ELSE LET prev == SeqsUpTo(S, n - 1) IN
       prev \cup {Append(q, x) : q \in prev, x \in S}

RECURSIVE Flatten(_)
Flatten(ss) == IF ss = <<>> THEN <<>> ELSE Head(ss) \o Flatten(Tail(ss))

DistinctKeys(m) == \A i, j \in 1..Len(m) : i # j => m[i].key # m[j].key

\* params objects with at most n own entries, keys from K, values from V,
\* in every iteration order
ParamMaps(K, V, n) ==
  {m \in SeqsUpTo([key : K, val : V], n) : DistinctKeys(m)}

KeyRank(k) ==
  CASE k = S_a -> 1 [] k = S_host -> 2 [] k = S_constructor -> 3 [] OTHER -> 4

\* the params objects of ParamMaps whose keys were inserted in KeyRank order
OrderedParamMaps(K, V, n) ==
  {m \in ParamMaps(K, V, n) :
     \A i \in 1..Len(m) - 1 : KeyRank(m[i].key) < KeyRank(m[i + 1].key)}

TextPieces == {S_pct_a, S_pct_host, S_pct_constructor, S_pct, S_a, S_dot}

ReplaceTexts == {Flatten(ps) : ps \in SeqsUpTo(TextPieces, MaxPieces)}

ReplaceParams ==
  OrderedParamMaps({S_a, S_constructor},
                   {StrVal(S_b), StrVal(S_pct_a), NumVal(42), BoolVal(FALSE)},
                   MaxParams)

\* template records: four hosts in three shapes
RecordHosts == {S_at, S_pct_host, S_a, S_pct_a}

RecordShapes ==
  {[type |-> "A", pointsTo |-> SomeStr(S_pct_a \o S_dot \o S_pct_host),
    ttl |-> SomeNum(3600),
    priority |-> NoNum, weight |-> NoNum, port |-> NoNum],
   [type |-> "SRV", pointsTo |-> NoStr, ttl |-> NoNum,
    priority |-> SomeNum(1), weight |-> SomeNum(5), port |-> SomeNum(443)],
   [type |-> "TXT", pointsTo |-> SomeStr(<<>>), ttl |-> SomeNum(300),
    priority |-> NoNum, weight |-> NoNum, port |-> NoNum]}

\* the pool of records: every host on the A shape, the apex on the SRV
\* shape, the sentinel on the TXT shape
RecordPool ==
  {r \in {[type |-> sh.type, host |-> h, pointsTo |-> sh.pointsTo,
           ttl |-> sh.ttl, priority |-> sh.priority, weight |-> sh.weight,
           port |-> sh.port] : h \in RecordHosts, sh \in RecordShapes} :
     \/ r.type = "A"
     \/ r.type = "SRV" /\ r.host = S_at
     \/ r.type = "TXT" /\ r.host = S_pct_host}

\* templates without a parameters list
RecordTemplates ==
  {[parameters |-> [def |-> FALSE, list |-> <<>>], records |-> rs] :
     rs \in SeqsUpTo(RecordPool, MaxRecords)}

RecordParams ==
  OrderedParamMaps({S_a, S_host},
                   {StrVal(S_b), StrVal(S_at), StrVal(S_pct_host)}, MaxParams)

\* the domain argument
RecordDomains == {S_domain, <<"e", ".", "c">>}

\* the caller host: absent, empty, a label, or the sentinel text itself
CallerHosts == {NoStr, SomeStr(<<>>), SomeStr(S_b), SomeStr(S_pct_host)}

TplParameters ==
  [name : {S_a, S_constructor},
   required : {NoBool, SomeBool(TRUE), SomeBool(FALSE)}]

ValidateTemplates ==
  {[parameters |-> [def |-> FALSE, list |-> <<>>], records |-> <<>>]}
    \cup {[parameters |-> [def |-> TRUE, list |-> ps], records |-> <<>>] :
            ps \in SeqsUpTo(TplParameters, MaxTplParams)}

\* params whose values include the falsy ones
ValidateParams ==
  OrderedParamMaps({S_a, S_constructor},
                   {StrVal(<<>>), NumVal(0), BoolVal(FALSE), StrVal(S_b)},
                   MaxParams)

\* params of a request, in every iteration order; 'host' is also the name
\* of a reserved query entry
UrlParams ==
  ParamMaps({S_a, S_host},
            {StrVal(<<"b", "&", " ">>), NumVal(42), BoolVal(TRUE)}, MaxParams)

OptBools == {NoBool, SomeBool(TRUE), SomeBool(FALSE)}

UrlSettings ==
  [urlAPI : {<<"u">>}, syncEnabled : OptBools, asyncEnabled : OptBools,
   urlAsyncAPI : {NoStr, SomeStr(<<>>), SomeStr(<<"v">>)}]

SyncOptions ==
  [domain : {<<"d">>}, providerId : {<<"p">>}, serviceId : {<<"s">>},
   params : UrlParams, host : {NoStr, SomeStr(<<>>), SomeStr(S_b)},
   redirectUri : {NoStr}, state : {NoStr}, forcePermission : {NoBool}]

AsyncOptions ==
  [domain : {<<"d">>}, providerId : {<<"p">>}, serviceId : {<<"s">>},
   params : UrlParams, host : {NoStr, SomeStr(<<>>), SomeStr(S_b)},
   redirectUri : {NoStr, SomeStr(<<>>), SomeStr(<<"h", ":", "/", "c">>)},
   state : {NoStr, SomeStr(<<>>), SomeStr(<<"x">>)},
   forcePermission : OptBools]

\* options of applyTemplateAsynchronous
ApplyAsyncOptions ==
  [domain : {<<"d">>}, providerId : {<<"p">>}, serviceId : {<<"s">>},
   params : UrlParams, host : {NoStr, SomeStr(<<>>), SomeStr(S_b)},
   redirectUri : {NoStr, SomeStr(<<"h", ":", "/", "c">>)},
   state : {NoStr, SomeStr(<<"x">>)},
   forcePermission : {NoBool, SomeBool(TRUE)}]

S_timeout == <<"t", "i", "m", "e", "o", "u", "t">>

\* what the server answers to an apply or status request, or the failure
StatusOutcomes ==
  {Resp(st, NoBody) : st \in {200, 202, 204, 404, 500}}
    \cup {Failure(S_timeout), Failure(<<>>)}

StatusUrls == {<<"u", "/", "s">>}

\* bodies a discovery endpoint answers with: settings objects that carry a
\* field more than the four the client reads
SettingsBodies ==
  {[urlAPI |-> <<"u">>, syncEnabled |-> SomeBool(TRUE),
    asyncEnabled |-> SomeBool(FALSE), urlAsyncAPI |-> NoStr,
    providerName |-> <<"x">>],
   [urlAPI |-> <<"v">>, syncEnabled |-> NoBool,
    asyncEnabled |-> SomeBool(TRUE), urlAsyncAPI |-> SomeStr(<<"v">>),
    providerName |-> <<"x">>]}

\* what a discovery endpoint answers, or the failure of the request
DiscoveryOutcomes ==
  {Resp(st, Body(b)) : st \in {200, 204}, b \in SettingsBodies}
    \cup {Resp(st, NoBody) : st \in {200, 404}}
    \cup {Failure(S_timeout)}

DiscoverDomains == {<<"d">>, <<"e", ".", "c">>}

\* bodies of the template endpoint
TemplateBodies ==
  {[providerId |-> <<"p">>, serviceId |-> <<"s">>, records |-> recs] :
     recs \in {<<>>, <<[type |-> <<"A">>, host |-> S_at]>>}}

TemplateOutcomes ==
  {Resp(st, Body(b)) : st \in {200, 404}, b \in TemplateBodies}
    \cup {Resp(st, NoBody) : st \in {200, 204, 500}}
    \cup {Failure(S_timeout)}

TemplateIds == {<<"p">>, <<"s">>}

\* labels of hostnames: plain names, second-level names, country codes in
\* both cases, the empty label
HostLabels ==
  {<<"w">>, <<"e", "x">>, <<"c", "o">>, <<"c", "o", "m">>, <<"u", "k">>,
   <<"U", "K">>, <<>>}

\* hostnames of at most MaxLabels labels ('' is the one of no label)
Hostnames == {JoinDots(ls) : ls \in SeqsUpTo(HostLabels, MaxLabels)}

\* nameservers: of three directory entries (one in mixed case, one matched
\* by a bare word), of two unknown providers, and a name of one label
NameserverPool == {
  <<"n", "s", ".", "c", "l", "o", "u", "d", "f", "l", "a", "r", "e", ".",
    "c", "o", "m">>,
  <<"N", "S", ".", "G", "o", "D", "a", "d", "d", "y", ".", "c", "o", "m">>,
  <<"a", ".", "a", "w", "s", "d", "n", "s", "-", "1", ".", "o", "r", "g">>,
  <<"n", "s", ".", "e", "x", ".", "n", "e", "t">>,
  <<"A", ".", "B", ".", "I", "o">>,
  <<"l", "o", "c", "a", "l", "h", "o", "s", "t">>}

\* what the resolver answers, or the failure of the resolution
NsOutcomes ==
  {Nameservers(l) : l \in SeqsUpTo(NameserverPool, MaxNs)}
    \cup {Failure(S_timeout)}

\* the domains substrings of the built client's directory
DistDomains ==
  UNION {{dnsProvidersDist[k].domains[d] :
            d \in 1..Len(dnsProvidersDist[k].domains)} :
           k \in 1..Len(dnsProvidersDist)}

\* nameserver lists for the built client's lookup: a directory substring
\* alone, the nameserver 'ns.' + substring, the two together, and no
\* nameserver at all
DistNameserverLists ==
  {<<d>> : d \in DistDomains}
    \cup {<<<<"n", "s", ".">> \o d>> : d \in DistDomains}
    \cup {<<<<"n", "s", ".">> \o d, d>> : d \in DistDomains}
    \cup {<<>>}

\* what a redirect URI starts with: URLs of a special and of a custom
\* scheme, one with a fragment, and texts that are no URL (no scheme, a
\* path, a special scheme without host, a scheme starting with a digit)
RedirectBases == {
  <<"h", "t", "t", "p", "s", ":", "/", "/", "e", ".", "c", "/", "c", "b">>,
  <<"a", "p", "p", ":", "c", "b">>,
  <<"a", "p", "p", ":", "c", "b", "#", "f">>,
  <<"i", "n", "v", "a", "l", "i", "d", "-", "u", "r", "i">>,
  <<"/", "c", "b">>,
  <<"h", "t", "t", "p", "s", ":", "/", "/">>,
  <<"2", ":", "c">>}

\* name=value pieces of a query: present, empty, without '=', repeated,
\* foreign, and escaped
RedirectPairs == {
  <<"s", "t", "a", "t", "e", "=", "x">>,
  <<"c", "o", "d", "e", "=", "1">>,
  <<"s", "t", "a", "t", "e", "=">>,
  <<"c", "o", "d", "e">>,
  <<"s", "t", "a", "t", "e", "=", "y">>,
  <<"x", "=", "1">>,
  <<"s", "t", "a", "t", "e", "=", "a", "%", "3", "A", "+", "b">>}

RECURSIVE JoinAmp(_)
JoinAmp(pieces) ==
  IF pieces = <<>> THEN <<>>
  ELSE IF Len(pieces) = 1 THEN pieces[1]
  ELSE pieces[1] \o <<"&">> \o JoinAmp(Tail(pieces))

RedirectUris ==
  {base \o query \o fragment :
     base \in RedirectBases,
     query \in {<<>>} \cup {<<"?">> \o JoinAmp(ps) :
                              ps \in SeqsUpTo(RedirectPairs, MaxPairs)},
     fragment \in {<<>>, <<"#", "c", "o", "d", "e", "=", "9">>}}

----------------------------------------------------------------------------
(* The client: one call at a time; a call runs to completion and returns.  *)

Idle == [none |-> TRUE]

\* no request made, no response awaited
NoNet == [log |-> <<>>, wait |-> "none"]

Init ==
  /\ op = "idle"
  /\ args = Idle
  /\ post = Idle
  /\ ret = Idle
  /\ net = NoNet

CallReplaceVariables ==
  /\ op = "idle"
  /\ \E text \in ReplaceTexts, params \in ReplaceParams :
       /\ op' = "replaceVariables"
       /\ args' = [text |-> text, params |-> params]
       /\ post' = [params |-> params]
       /\ ret' = replaceVariables(text, params)
       /\ net' = net

CallGenerateRecords ==
  /\ op = "idle"
  /\ \E template \in RecordTemplates, params \in RecordParams,
        domain \in RecordDomains, host \in CallerHosts :
       LET r == generateRecords(template, params, domain, host) IN
       /\ op' = "generateRecords"
       /\ args' = [template |-> template, params |-> params,
                   domain |-> domain, host |-> host]
       /\ post' = [template |-> r.template, params |-> r.params]
       /\ ret' = r.ret
       /\ net' = net

CallValidateParameters ==
  /\ op = "idle"
  /\ \E template \in ValidateTemplates, params \in ValidateParams :
       /\ op' = "validateParameters"
       /\ args' = [template |-> template, params |-> params]
       /\ post' = [template |-> template, params |-> params]
       /\ ret' = validateParameters(template, params)
       /\ net' = net

CallGenerateSyncURL ==
  /\ op = "idle"
  /\ \E settings \in UrlSettings, options \in SyncOptions :
       /\ op' = "generateSyncURL"
       /\ args' = [settings |-> settings, options |-> options]
       /\ post' = [settings |-> settings, options |-> options]
       /\ ret' = generateSyncURL(settings, options)
       /\ net' = net

CallGenerateAsyncURL ==
  /\ op = "idle"
  /\ \E settings \in UrlSettings, options \in AsyncOptions :
       /\ op' = "generateAsyncURL"
       /\ args' = [settings |-> settings, options |-> options]
       /\ post' = [settings |-> settings, options |-> options]
       /\ ret' = generateAsyncURL(settings, options)
       /\ net' = net

\* applyTemplateSynchronous up to its await (or to its early return)
ApplySyncStart ==
  /\ op = "idle"
  /\ \E settings \in UrlSettings, options \in SyncOptions :
       /\ op' = "applyTemplateSynchronous"
       /\ args' = [settings |-> settings, options |-> options]
       /\ post' = [settings |-> settings, options |-> options]
       /\ IF SyncUnsupported(settings)
          THEN /\ ret' = ResultError(S_sync_unsupported)
               /\ net' = NoNet
          ELSE /\ ret' = Idle
               /\ net' = [log |-> <<HttpGet(ApplySyncUrl(settings, options))>>,
                          wait |-> "apply"]

\* the request of applyTemplateSynchronous settles
ApplySyncSettle ==
  /\ op = "applyTemplateSynchronous"
  /\ net.wait = "apply"
  /\ \E outcome \in StatusOutcomes :
       /\ ret' = ApplySyncResult(outcome)
       /\ net' = [log |-> Append(net.log, outcome), wait |-> "none"]
  /\ UNCHANGED <<op, args, post>>

CallApplyAsync ==
  /\ op = "idle"
  /\ \E settings \in UrlSettings, options \in ApplyAsyncOptions :
       /\ op' = "applyTemplateAsynchronous"
       /\ args' = [settings |-> settings, options |-> options]
       /\ post' = [settings |-> settings, options |-> options]
       /\ ret' = applyTemplateAsynchronous(settings, options)
       /\ net' = net

\* checkAsyncStatus up to its await
CheckStatusStart ==
  /\ op = "idle"
  /\ \E statusUrl \in StatusUrls :
       /\ op' = "checkAsyncStatus"
       /\ args' = [statusUrl |-> statusUrl]
       /\ post' = [statusUrl |-> statusUrl]
       /\ ret' = Idle
       /\ net' = [log |-> <<HttpGet(statusUrl)>>, wait |-> "status"]

\* the request of checkAsyncStatus settles
CheckStatusSettle ==
  /\ op = "checkAsyncStatus"
  /\ net.wait = "status"
  /\ \E outcome \in StatusOutcomes :
       /\ ret' = CheckStatusResult(outcome)
       /\ net' = [log |-> Append(net.log, outcome), wait |-> "none"]
  /\ UNCHANGED <<op, args, post>>

\* discoverSettings up to its first await
DiscoverStart ==
  /\ op = "idle"
  /\ \E domain \in DiscoverDomains :
       /\ op' = "discoverSettings"
       /\ args' = [domain |-> domain]
       /\ post' = [domain |-> domain]
       /\ ret' = Idle
       /\ net' = [log |-> <<HttpGet(PrimaryUrl(domain))>>, wait |-> "primary"]

\* the primary request settles: settings are returned, or the alternative
\* request is made
DiscoverPrimarySettle ==
  /\ op = "discoverSettings"
  /\ net.wait = "primary"
  /\ \E outcome \in DiscoveryOutcomes :
       CASE AfterPrimary(outcome) = "return" ->
              /\ ret' = Some(DiscoveredSettings(outcome.data))
              /\ net' = [log |-> Append(net.log, outcome), wait |-> "none"]
         [] AfterPrimary(outcome) = "fallback" ->
              /\ ret' = ret
              /\ net' = [log |-> net.log \o
                                   <<outcome, HttpGet(FallbackUrl(args.domain))>>,
                         wait |-> "fallback"]
         [] OTHER ->   \* the outer catch of line 196
              /\ ret' = Null
              /\ net' = [log |-> Append(net.log, outcome), wait |-> "none"]
  /\ UNCHANGED <<op, args, post>>

\* the alternative request settles
DiscoverFallbackSettle ==
  /\ op = "discoverSettings"
  /\ net.wait = "fallback"
  /\ \E outcome \in DiscoveryOutcomes :
       /\ ret' = FallbackResult(outcome)
       /\ net' = [log |-> Append(net.log, outcome), wait |-> "none"]
  /\ UNCHANGED <<op, args, post>>

\* getTemplate up to its await
GetTemplateStart ==
  /\ op = "idle"
  /\ \E settings \in UrlSettings, providerId \in TemplateIds,
        serviceId \in TemplateIds :
       /\ op' = "getTemplate"
       /\ args' = [settings |-> settings, providerId |-> providerId,
                   serviceId |-> serviceId]
       /\ post' = [settings |-> settings]
       /\ ret' = Idle
       /\ net' = [log |-> <<HttpGet(TemplateUrl(settings, providerId, serviceId))>>,
                  wait |-> "template"]

\* the request of getTemplate settles
GetTemplateSettle ==
  /\ op = "getTemplate"
  /\ net.wait = "template"
  /\ \E outcome \in TemplateOutcomes :
       /\ ret' = TemplateResult(outcome)
       /\ net' = [log |-> Append(net.log, outcome), wait |-> "none"]
  /\ UNCHANGED <<op, args, post>>

CallSplitHostname ==
  /\ op = "idle"
  /\ \E hostname \in Hostnames :
       /\ op' = "splitHostname"
       /\ args' = [hostname |-> hostname]
       /\ post' = [hostname |-> hostname]
       /\ ret' = splitHostname(hostname)
       /\ net' = net

\* getDnsProviderInfo up to its await
ProviderInfoStart ==
  /\ op = "idle"
  /\ \E domain \in DiscoverDomains :
       /\ op' = "getDnsProviderInfo"
       /\ args' = [domain |-> domain]
       /\ post' = [domain |-> domain]
       /\ ret' = Idle
       /\ net' = [log |-> <<ResolveNs(domain)>>, wait |-> "resolveNs"]

\* the resolution settles
ProviderInfoSettle ==
  /\ op = "getDnsProviderInfo"
  /\ net.wait = "resolveNs"
  /\ \E outcome \in NsOutcomes :
       /\ ret' = ProviderInfo(args.domain, outcome)
       /\ net' = [log |-> Append(net.log, outcome), wait |-> "none"]
  /\ UNCHANGED <<op, args, post>>

CallParseRedirectUri ==
  /\ op = "idle"
  /\ \E redirectUri \in RedirectUris :
       /\ op' = "parseRedirectUri"
       /\ args' = [redirectUri |-> redirectUri]
       /\ post' = [redirectUri |-> redirectUri]
       /\ ret' = parseRedirectUri(redirectUri)
       /\ net' = net

\* identifyDnsProvider of the built client
CallIdentifyDnsProviderDist ==
  /\ op = "idle"
  /\ \E nameservers \in DistNameserverLists :
       /\ op' = "identifyDnsProviderDist"
       /\ args' = [nameservers |-> nameservers]
       /\ post' = [nameservers |-> nameservers]
       /\ ret' = identifyDnsProviderDist(nameservers)
       /\ net' = net

\* the call has run to completion: the caller gets the result
Return ==
  /\ op # "idle"
  /\ net.wait = "none"
  /\ op' = "idle"
  /\ args' = Idle
  /\ post' = Idle
  /\ ret' = Idle
  /\ net' = NoNet

Next ==
  \/ CallReplaceVariables
  \/ CallGenerateRecords
  \/ CallValidateParameters
  \/ CallGenerateSyncURL
  \/ CallGenerateAsyncURL
  \/ ApplySyncStart
  \/ ApplySyncSettle
  \/ CallApplyAsync
  \/ CheckStatusStart
  \/ CheckStatusSettle
  \/ DiscoverStart
  \/ DiscoverPrimarySettle
  \/ DiscoverFallbackSettle
  \/ GetTemplateStart
  \/ GetTemplateSettle
  \/ CallSplitHostname
  \/ ProviderInfoStart
  \/ ProviderInfoSettle
  \/ CallParseRedirectUri
  \/ CallIdentifyDnsProviderDist
  \/ Return

Spec == Init /\ [][Next]_vars

----------------------------------------------------------------------------
(* Concurrent discovery: up to MaxCalls invocations of discoverSettings    *)
(* in flight on one client.  The method keeps everything in locals         *)
(* (domain, dnsQuery, response), so here args, ret and net are functions   *)
(* from the call to its own locals, result and request log; the awaits are *)
(* the points where the calls interleave.                                  *)

ConcCalls == 1..MaxCalls

\* what the endpoints answer to the concurrent calls
ConcOutcomes ==
  {Resp(200, Body(b)) : b \in SettingsBodies}
    \cup {Resp(404, NoBody), Failure(S_timeout)}

\* mutant: the domain is read from the first call in flight, as if it were
\* kept in a field of the client
DomainOfFirstCall(locals, c) ==
  IF locals[1] # Idle THEN locals[1].domain ELSE locals[c].domain

\* the parameter `domain` of call c
DomainOfCall(locals, c) == locals[c].domain

ConcInit ==
  /\ op = "concurrent"
  /\ args = [c \in ConcCalls |-> Idle]
  /\ post = Idle
  /\ ret = [c \in ConcCalls |-> Idle]
  /\ net = [c \in ConcCalls |-> NoNet]

\* call c of discoverSettings starts and reaches its first await
ConcDiscoverStart(c) ==
  /\ args[c] = Idle
  /\ \E domain \in DiscoverDomains :
       /\ args' = [args EXCEPT ![c] = [domain |-> domain]]
       /\ net' = [net EXCEPT ![c] =
                    [log |-> <<HttpGet(PrimaryUrl(domain))>>, wait |-> "primary"]]
  /\ UNCHANGED <<op, post, ret>>

\* the primary request of call c settles
ConcPrimarySettle(c) ==
  /\ args[c] # Idle
  /\ net[c].wait = "primary"
  /\ \E outcome \in ConcOutcomes :
       CASE AfterPrimary(outcome) = "return" ->
              /\ ret' = [ret EXCEPT ![c] = Some(DiscoveredSettings(outcome.data))]
              /\ net' = [net EXCEPT ![c] =
                           [log |-> Append(net[c].log, outcome), wait |-> "none"]]
         [] AfterPrimary(outcome) = "fallback" ->
              /\ ret' = ret
              /\ net' = [net EXCEPT ![c] =
                           [log |-> net[c].log \o
                                      <<outcome,
                                        HttpGet(FallbackUrl(DomainOfCall(args, c)))>>,
                            wait |-> "fallback"]]
         [] OTHER ->   \* the outer catch of line 196
              /\ ret' = [ret EXCEPT ![c] = Null]
              /\ net' = [net EXCEPT ![c] =
                           [log |-> Append(net[c].log, outcome), wait |-> "none"]]
  /\ UNCHANGED <<op, args, post>>

\* the alternative request of call c settles
ConcFallbackSettle(c) ==
  /\ args[c] # Idle
  /\ net[c].wait = "fallback"
  /\ \E outcome \in ConcOutcomes :
       /\ ret' = [ret EXCEPT ![c] = FallbackResult(outcome)]
       /\ net' = [net EXCEPT ![c] =
                    [log |-> Append(net[c].log, outcome), wait |-> "none"]]
  /\ UNCHANGED <<op, args, post>>

\* call c has run to completion: its caller gets the result
ConcReturn(c) ==
  /\ args[c] # Idle
  /\ net[c].wait = "none"
  /\ args' = [args EXCEPT ![c] = Idle]
  /\ ret' = [ret EXCEPT ![c] = Idle]
  /\ net' = [net EXCEPT ![c] = NoNet]
  /\ UNCHANGED <<op, post>>

ConcNext ==
  \E c \in ConcCalls :
    \/ ConcDiscoverStart(c)
    \/ ConcPrimarySettle(c)
    \/ ConcFallbackSettle(c)
    \/ ConcReturn(c)

SpecConcurrent == ConcInit /\ [][ConcNext]_vars

----------------------------------------------------------------------------
(* Helpers of the properties below.                                        *)

IsRecordsCall == op = "generateRecords"

\* the host of record i of the call's template after variable substitution
SubstHost(i) == replaceVariables(args.template.records[i].host, args.params)

RecordIdx == 1..Len(args.template.records)

\* str ends with suffix
EndsWith(str, suffix) ==
  /\ Len(str) >= Len(suffix)
  /\ SubSeq(str, Len(str) - Len(suffix) + 1, Len(str)) = suffix

\* the whole of str is one placeholder %name% whose name is no key of params
IsUnresolvedPlaceholder(str, params) ==
  /\ Len(str) >= 3
  /\ MatchEnd(str, 1) = Len(str)
  /\ SubSeq(str, 2, Len(str) - 1) \notin OwnKeys(params)

----------------------------------------------------------------------------
(* C1 - generateRecords, host concatenation: for a record whose host after *)
(* substitution is s # '%host%', a non-empty caller host h gives h when    *)
(* s = '@' and s.h otherwise; no caller host (absent or '') gives s.       *)
C1_HostConcatenation ==
  IsRecordsCall =>
    \A i \in RecordIdx :
      LET s == SubstHost(i) IN
      s # S_pct_host =>
        ret[i].host =
          (IF TruthyStr(args.host)
           THEN IF s = S_at THEN args.host.s ELSE s \o S_dot \o args.host.s
           ELSE s)

\* a substituted value 'b' is concatenated under the caller host 'b', next
\* to an apex record that becomes the caller host
C1_Witness ==
  /\ IsRecordsCall
  /\ args.host = SomeStr(S_b)
  /\ Len(ret) = 2
  /\ args.template.records[1].host = S_pct_a
  /\ SubstHost(1) = S_b
  /\ ret[1].host = <<"b", ".", "b">>
  /\ args.template.records[2].host = S_at
  /\ ret[2].host = S_b

(* C2 as stated - for every params map, a record whose raw host is         *)
(* '%host%' resolves to '@' without a caller host and to exactly the       *)
(* caller host h with one, never to h.h.                                   *)
C2_Original ==
  IsRecordsCall =>
    \A i \in RecordIdx :
      args.template.records[i].host = S_pct_host =>
        /\ ret[i].host = (IF TruthyStr(args.host) THEN args.host.s ELSE S_at)
        /\ TruthyStr(args.host) =>
             ret[i].host # args.host.s \o S_dot \o args.host.s

(* C2 - a record whose raw host is '%host%' resolves to '@' without a      *)
(* caller host and to exactly the caller host with one, provided that      *)
(* params has no 'host' entry or its 'host' entry is the text '%host%'     *)
(* (substitution then leaves the sentinel in place).                       *)
C2_HostSentinel ==
  IsRecordsCall =>
    \A i \in RecordIdx :
      (/\ args.template.records[i].host = S_pct_host
       /\ \/ S_host \notin OwnKeys(args.params)
          \/ JSString(OwnGet(args.params, S_host)) = S_pct_host) =>
        /\ ret[i].host = (IF TruthyStr(args.host) THEN args.host.s ELSE S_at)
        /\ TruthyStr(args.host) =>
             ret[i].host # args.host.s \o S_dot \o args.host.s

\* both cases of the sentinel: with the caller host 'b', and without one
C2_Witness ==
  /\ IsRecordsCall
  /\ S_host \notin OwnKeys(args.params)
  /\ Len(ret) = 1
  /\ args.template.records[1].host = S_pct_host
  /\ \/ args.host = SomeStr(S_b) /\ ret[1].host = S_b
     \/ args.host = SomeStr(<<>>) /\ ret[1].host = S_at

(* C4 - generateRecords returns one record per template record, in order,  *)
(* with type, ttl, priority, weight and port of the template record, and   *)
(* leaves the template, its records and params unmodified.                 *)
C4_RecordsFrame ==
  IsRecordsCall =>
    /\ Len(ret) = Len(args.template.records)
    /\ \A i \in RecordIdx :
         /\ ret[i].type = args.template.records[i].type
         /\ ret[i].ttl = args.template.records[i].ttl
         /\ ret[i].priority = args.template.records[i].priority
         /\ ret[i].weight = args.template.records[i].weight
         /\ ret[i].port = args.template.records[i].port
    /\ post.template = args.template
    /\ post.params = args.params

\* two records of different types, both rewritten in host and one in
\* pointsTo, come back in order
C4_Witness ==
  /\ IsRecordsCall
  /\ Len(ret) = 2
  /\ args.template.records[1].type = "SRV"
  /\ args.template.records[2].type = "A"
  /\ ret[1].type = "SRV" /\ ret[1].port = SomeNum(443)
  /\ ret[2].type = "A" /\ ret[2].ttl = SomeNum(3600)
  /\ ret[1].host # args.template.records[1].host
  /\ ret[2].host # args.template.records[2].host
  /\ ret[2].pointsTo # args.template.records[2].pointsTo

\* the four shapes the invariant of the data model lists for a resolved host
C5_ListedShape(i) ==
  \/ TruthyStr(args.host) /\ ret[i].host = args.host.s
  \/ ret[i].host = S_at
  \/ TruthyStr(args.host) /\ EndsWith(ret[i].host, S_dot \o args.host.s)
  \/ IsUnresolvedPlaceholder(ret[i].host, args.params)

(* C5 as stated - every resolved host is the caller host, '@', a           *)
(* '<host>.<callerHost>' concatenation or an unresolved '%name%'.          *)
C5_Original == IsRecordsCall => \A i \in RecordIdx : C5_ListedShape(i)

(* C5 - every resolved host is the caller host, '@', a                     *)
(* '<host>.<callerHost>' concatenation, an unresolved '%name%', or, when   *)
(* no caller host is given, the record's host after variable substitution. *)
C5_ResolvedHostShape ==
  IsRecordsCall =>
    \A i \in RecordIdx :
      \/ C5_ListedShape(i)
      \/ ~TruthyStr(args.host) /\ ret[i].host = SubstHost(i)

\* the added case (a literal label kept without a caller host) and a
\* concatenation under the caller host
C5_Witness ==
  /\ IsRecordsCall
  /\ Len(ret) = 1
  /\ args.template.records[1].host = S_a
  /\ \/ ~TruthyStr(args.host) /\ ret[1].host = S_a
     \/ args.host = SomeStr(S_b) /\ ret[1].host = <<"a", ".", "b">>

----------------------------------------------------------------------------
RECURSIVE C3_Substituted(_, _, _)
\* the text C3 describes: each %name% with name a key of params replaced by
\* the string form of its value, every other character kept
C3_Substituted(text, params, i) ==
  IF i > Len(text) THEN <<>>
  ELSE LET j == MatchEnd(text, i) IN
       IF j # 0 /\ SubSeq(text, i + 1, j - 1) \in OwnKeys(params)
       THEN JSString(OwnGet(params, SubSeq(text, i + 1, j - 1)))
              \o C3_Substituted(text, params, j + 1)
       ELSE IF j # 0
            THEN SubSeq(text, i, j) \o C3_Substituted(text, params, j + 1)
            ELSE <<text[i]>> \o C3_Substituted(text, params, i + 1)

\* the names of the placeholders of text
PlaceholderNames(text) ==
  {SubSeq(text, i + 1, MatchEnd(text, i) - 1) :
     i \in {k \in 1..Len(text) : MatchEnd(text, k) # 0}}

(* C3 as stated - replaceVariables replaces every %name% whose name is a   *)
(* key of params by the string form of the value and leaves every other    *)
(* %name% unchanged, so a text none of whose placeholder names is a key of *)
(* params is returned unchanged.                                           *)
C3_Original ==
  op = "replaceVariables" =>
    /\ ret = C3_Substituted(args.text, args.params, 1)
    /\ PlaceholderNames(args.text) \cap OwnKeys(args.params) = {} =>
         ret = args.text

\* the required parameters of the call's template, in declaration order,
\* whose name is no key of params
C7_Unprovided ==
  LET Test(p) == p.required = SomeBool(TRUE) /\ p.name \notin OwnKeys(args.params)
  IN SelectSeq(args.template.parameters.list, Test)

(* C6 as stated - validateParameters returns valid = true iff every        *)
(* parameter with required = true has its name as a key of params (falsy   *)
(* values count as provided); without a parameters list the result is      *)
(* valid with missing = [].                                                *)
C6_Original ==
  op = "validateParameters" =>
    /\ ret.valid <=>
         \A i \in 1..Len(args.template.parameters.list) :
           args.template.parameters.list[i].required = SomeBool(TRUE) =>
             args.template.parameters.list[i].name \in OwnKeys(args.params)
    /\ ~args.template.parameters.def =>
         ret = [valid |-> TRUE, missing |-> <<>>]

(* C7 as stated - missing holds exactly the names of the required          *)
(* parameters not provided in params, in declaration order, and valid      *)
(* equals (missing is empty).                                              *)
C7_Original ==
  op = "validateParameters" =>
    /\ ret.missing = [i \in 1..Len(C7_Unprovided) |-> C7_Unprovided[i].name]
    /\ ret.valid = (ret.missing = <<>>)

----------------------------------------------------------------------------
(* Reading a query string back, as the receiving server does.              *)

PercentChars == {":", "/", "%", "@", "&", "=", "+", "?"}

RECURSIVE FormDecode(_)
FormDecode(str) ==
  IF str = <<>> THEN <<>>
  ELSE IF Head(str) = "+" THEN <<" ">> \o FormDecode(Tail(str))
  ELSE IF Head(str) = "%"
       THEN <<CHOOSE c \in PercentChars : PercentCode(c) = SubSeq(str, 1, 3)>>
              \o FormDecode(SubSeq(str, 4, Len(str)))
       ELSE <<Head(str)>> \o FormDecode(Tail(str))

\* index of the first occurrence of character c in str, or Len(str) + 1
IndexOf(str, c) ==
  IF \E i \in 1..Len(str) : str[i] = c
  THEN CHOOSE i \in 1..Len(str) : str[i] = c /\ \A k \in 1..i - 1 : str[k] # c
  ELSE Len(str) + 1

RECURSIVE ParseQuery(_)
\* the [name, value] entries of a query string, in order
ParseQuery(str) ==
  IF str = <<>> THEN <<>>
  ELSE LET amp == IndexOf(str, "&")
           pair == SubSeq(str, 1, amp - 1)
           eq == IndexOf(pair, "=")
       IN <<[name |-> FormDecode(SubSeq(pair, 1, eq - 1)),
            value |-> FormDecode(SubSeq(pair, eq + 1, Len(pair)))]>>
            \o ParseQuery(SubSeq(str, amp + 1, Len(str)))

Entry(name, value) == [name |-> name, value |-> value]

\* one entry per params entry, in iteration order, the value in string form
ParamEntries(params) ==
  [i \in 1..Len(params) |-> Entry(params[i].key, JSString(params[i].val))]

\* base + '/v2/domainTemplates/providers/{providerId}/services/{serviceId}/apply?'
UrlPrefix(base, options) ==
  base \o S_providers \o options.providerId \o S_services
       \o options.serviceId \o S_apply \o <<"?">>

\* url starts with prefix, and the query after it reads back as entries
UrlHolds(url, prefix, entries) ==
  /\ Len(url) >= Len(prefix)
  /\ SubSeq(url, 1, Len(prefix)) = prefix
  /\ ParseQuery(SubSeq(url, Len(prefix) + 1, Len(url))) = entries

(* C8 - generateSyncURL returns urlAPI + the apply path + '?' + query,     *)
(* the query holding domain, then host only when a non-empty host is       *)
(* given, then one entry per params entry in iteration order with the      *)
(* value in string form.                                                   *)
C8_SyncURL ==
  op = "generateSyncURL" =>
    UrlHolds(ret, UrlPrefix(args.settings.urlAPI, args.options),
             <<Entry(S_domain, args.options.domain)>>
               \o (IF args.options.host.def /\ args.options.host.s # <<>>
                   THEN <<Entry(S_host, args.options.host.s)>> ELSE <<>>)
               \o ParamEntries(args.options.params))

\* host 'b' and two params, one of them named like the reserved 'host' and
\* one a number; the value 'b& ' goes out escaped
C8_Witness ==
  /\ op = "generateSyncURL"
  /\ args.options.host = SomeStr(S_b)
  /\ args.options.params =
       <<[key |-> S_host, val |-> StrVal(<<"b", "&", " ">>)],
         [key |-> S_a, val |-> NumVal(42)]>>
  /\ ret = <<"u">> \o S_providers \o <<"p">> \o S_services \o <<"s">> \o S_apply
             \o <<"?", "d", "o", "m", "a", "i", "n", "=", "d", "&",
                  "h", "o", "s", "t", "=", "b", "&",
                  "h", "o", "s", "t", "=", "b", "%", "2", "6", "+", "&",
                  "a", "=", "4", "2">>

\* the entries C9 lists after domain and host
C9_OAuthEntries(options) ==
  (IF options.redirectUri.def /\ options.redirectUri.s # <<>>
   THEN <<Entry(S_redirect_uri, options.redirectUri.s)>> ELSE <<>>)
    \o (IF options.state.def /\ options.state.s # <<>>
        THEN <<Entry(S_state, options.state.s)>> ELSE <<>>)
    \o (IF options.forcePermission = SomeBool(TRUE)
        THEN <<Entry(S_force, S_true)>> ELSE <<>>)

\* asynchronous mode is available: asyncEnabled is true and urlAsyncAPI is a
\* non-empty string
AsyncAvailable(settings) ==
  /\ settings.asyncEnabled = SomeBool(TRUE)
  /\ settings.urlAsyncAPI.def
  /\ settings.urlAsyncAPI.s # <<>>

(* C9 - with asynchronous mode available, generateAsyncURL returns         *)
(* urlAsyncAPI + the apply path + '?' + query, the query holding domain,   *)
(* host, redirect_uri (percent-encoded), state, force=true (only when      *)
(* forcePermission is truthy), each if present, then the params entries.   *)
C9_AsyncURL ==
  (op = "generateAsyncURL" /\ AsyncAvailable(args.settings)) =>
    /\ ret.def
    /\ UrlHolds(ret.s, UrlPrefix(args.settings.urlAsyncAPI.s, args.options),
                <<Entry(S_domain, args.options.domain)>>
                  \o (IF args.options.host.def /\ args.options.host.s # <<>>
                      THEN <<Entry(S_host, args.options.host.s)>> ELSE <<>>)
                  \o C9_OAuthEntries(args.options)
                  \o ParamEntries(args.options.params))

\* every optional entry present; the redirect URI 'h:/c' goes out as h%3A%2Fc
C9_Witness ==
  /\ op = "generateAsyncURL"
  /\ AsyncAvailable(args.settings)
  /\ args.options.host = SomeStr(S_b)
  /\ args.options.redirectUri = SomeStr(<<"h", ":", "/", "c">>)
  /\ args.options.state = SomeStr(<<"x">>)
  /\ args.options.forcePermission = SomeBool(TRUE)
  /\ args.options.params = <<[key |-> S_a, val |-> BoolVal(TRUE)]>>
  /\ ret.s = <<"v">> \o S_providers \o <<"p">> \o S_services \o <<"s">> \o S_apply
             \o <<"?", "d", "o", "m", "a", "i", "n", "=", "d", "&",
                  "h", "o", "s", "t", "=", "b", "&">>
             \o S_redirect_uri \o <<"=", "h", "%", "3", "A", "%", "2", "F", "c", "&">>
             \o S_state \o <<"=", "x", "&">> \o S_force \o <<"=">> \o S_true
             \o <<"&", "a", "=">> \o S_true

(* C10 - generateAsyncURL returns null whenever asyncEnabled is falsy or   *)
(* urlAsyncAPI is absent or empty, whatever the options, and a URL string  *)
(* in every other case.                                                    *)
C10_AsyncNull ==
  op = "generateAsyncURL" =>
    IF \/ ~args.settings.asyncEnabled.def
       \/ args.settings.asyncEnabled.b = FALSE
       \/ ~args.settings.urlAsyncAPI.def
       \/ args.settings.urlAsyncAPI.s = <<>>
    THEN ret = NoStr
    ELSE ret.def /\ ret.s # <<>>

\* null although asyncEnabled is true and every option is given: the
\* endpoint is the empty string
C10_Witness ==
  /\ op = "generateAsyncURL"
  /\ args.settings.asyncEnabled = SomeBool(TRUE)
  /\ args.settings.urlAsyncAPI = SomeStr(<<>>)
  /\ args.options.redirectUri.def /\ args.options.redirectUri.s # <<>>
  /\ args.options.forcePermission = SomeBool(TRUE)
  /\ args.options.params # <<>>
  /\ ret = NoStr

----------------------------------------------------------------------------
\* the positions of the requests in the log of the running call
GetIdx == {i \in 1..Len(net.log) : net.log[i].t = "GET"}

\* the call awaits nothing: it has run to completion
Settled == net.wait = "none"

\* the outcome of the last request of the call
LastOutcome == net.log[Len(net.log)]

(* C12 - applyTemplateSynchronous performs a network call iff              *)
(* settings.syncEnabled is truthy: when falsy the result is {success:      *)
(* false, error: 'Synchronous mode not supported by DNS provider'} and no  *)
(* request is made; when truthy exactly one GET is issued, to the URL      *)
(* generateSyncURL returns for the same arguments.                         *)
C12_SyncNetworkIffEnabled ==
  op = "applyTemplateSynchronous" =>
    IF args.settings.syncEnabled = SomeBool(TRUE)
    THEN /\ Cardinality(GetIdx) = 1
         /\ net.log[1] = HttpGet(generateSyncURL(args.settings, args.options))
    ELSE /\ GetIdx = {}
         /\ net.log = <<>>
         /\ Settled
         /\ ret = [success |-> FALSE, error |-> SomeStr(S_sync_unsupported),
                   redirectUrl |-> NoStr, asyncStatusUrl |-> NoStr]

\* an enabled call with a host and params has made its one request and got
\* its answer
C12_Witness ==
  /\ op = "applyTemplateSynchronous"
  /\ args.settings.syncEnabled = SomeBool(TRUE)
  /\ args.options.host = SomeStr(S_b)
  /\ Len(args.options.params) = 2
  /\ Settled
  /\ Len(net.log) = 2
  /\ net.log[1].t = "GET"
  /\ net.log[2].t = "resp"
  /\ ret.success

(* C13 - applyTemplateAsynchronous never performs a network call; it       *)
(* returns {success: false, error: 'Asynchronous mode not supported by     *)
(* DNS provider'} exactly when asyncEnabled is falsy or urlAsyncAPI is     *)
(* missing (the cases where generateAsyncURL returns null), and otherwise  *)
(* {success: true, redirectUrl} with redirectUrl = generateAsyncURL(...).  *)
C13_AsyncApplyRefinesURL ==
  op = "applyTemplateAsynchronous" =>
    LET url == generateAsyncURL(args.settings, args.options) IN
    /\ net.log = <<>>
    /\ Settled
    /\ (~url.def) <=> ~AsyncAvailable(args.settings)
    /\ IF ~AsyncAvailable(args.settings)
       THEN ret = [success |-> FALSE, error |-> SomeStr(S_async_unsupported),
                   redirectUrl |-> NoStr, asyncStatusUrl |-> NoStr]
       ELSE ret = [success |-> TRUE, error |-> NoStr, redirectUrl |-> url,
                   asyncStatusUrl |-> NoStr]

\* a redirect URL carrying redirect_uri, state and force was returned
C13_Witness ==
  /\ op = "applyTemplateAsynchronous"
  /\ AsyncAvailable(args.settings)
  /\ args.options.redirectUri.def
  /\ args.options.state.def
  /\ args.options.forcePermission = SomeBool(TRUE)
  /\ args.options.params # <<>>
  /\ ret.success
  /\ ret.redirectUrl.def
  /\ net.log = <<>>

\* the result C14 gives for an outcome; inProgress202 tells whether 202 is
\* the special 'still in progress' status
C14_Mapped(outcome, inProgress202) ==
  IF outcome.t = "fail"
  THEN [success |-> FALSE, error |-> SomeStr(outcome.message),
        redirectUrl |-> NoStr, asyncStatusUrl |-> NoStr]
  ELSE IF outcome.status = 200
  THEN [success |-> TRUE, error |-> NoStr, redirectUrl |-> NoStr,
        asyncStatusUrl |-> NoStr]
  ELSE IF outcome.status = 202 /\ inProgress202
  THEN [success |-> FALSE, error |-> SomeStr(S_in_progress),
        redirectUrl |-> NoStr, asyncStatusUrl |-> NoStr]
  ELSE [success |-> FALSE,
        error |-> SomeStr(S_unexpected_status \o NatDigits(outcome.status)),
        redirectUrl |-> NoStr, asyncStatusUrl |-> NoStr]

C15_Yields(outcome) ==
  outcome.t = "resp" /\ outcome.status = 200 /\ outcome.data # NoBody

C15_PrimaryUrl ==
  <<"h", "t", "t", "p", "s", ":", "/", "/", "_", "d", "o", "m", "a", "i", "n",
    "c", "o", "n", "n", "e", "c", "t", ".">> \o args.domain \o
  <<"/", "v", "2", "/", "d", "o", "m", "a", "i", "n", "T", "e", "m", "p", "l",
    "a", "t", "e", "s", "/", "p", "r", "o", "v", "i", "d", "e", "r", "s">>

C15_FallbackUrl ==
  <<"h", "t", "t", "p", "s", ":", "/", "/">> \o args.domain \o
  <<"/", ".", "w", "e", "l", "l", "-", "k", "n", "o", "w", "n", "/", "d", "o",
    "m", "a", "i", "n", "-", "c", "o", "n", "n", "e", "c", "t", ".", "j", "s",
    "o", "n">>

(* C15 - discoverSettings issues its requests strictly in order: first the *)
(* GET of https://_domainconnect.{domain}/v2/domainTemplates/providers;    *)
(* the fallback GET of https://{domain}/.well-known/domain-connect.json    *)
(* only after the primary attempt has completed without yielding settings  *)
(* (transport failure, non-200 status or empty body); when the primary     *)
(* yields settings no second request is made; no URL is requested twice,   *)
(* so every call makes exactly 1 or 2 requests.                            *)
C15_DiscoveryOrder ==
  op = "discoverSettings" =>
    /\ net.log # <<>>
    /\ net.log[1] = HttpGet(C15_PrimaryUrl)
    /\ \A i \in GetIdx \ {1} :
         /\ i = 3
         /\ net.log[3] = HttpGet(C15_FallbackUrl)
         /\ net.log[2].t # "GET"
         /\ ~C15_Yields(net.log[2])
    /\ (Len(net.log) >= 2 /\ C15_Yields(net.log[2])) =>
         (Settled /\ Cardinality(GetIdx) = 1)
    /\ (Len(net.log) >= 2 /\ ~C15_Yields(net.log[2])) =>
         Cardinality(GetIdx) = 2
    /\ \A i, j \in GetIdx : i # j => net.log[i].url # net.log[j].url
    /\ Cardinality(GetIdx) \in {1, 2}

\* the primary endpoint answered 204 with a body, and the fallback was asked
C15_Witness ==
  /\ op = "discoverSettings"
  /\ Len(net.log) = 3
  /\ net.log[2].t = "resp"
  /\ net.log[2].status = 204
  /\ net.log[2].data # NoBody
  /\ net.log[3].t = "GET"
  /\ net.wait = "fallback"

\* the four settings fields of a body
C16_Settings(body) ==
  [urlAPI |-> body.urlAPI, syncEnabled |-> body.syncEnabled,
   asyncEnabled |-> body.asyncEnabled, urlAsyncAPI |-> body.urlAsyncAPI]

\* the outcomes received by the running call, in order
Outcomes == [k \in 1..(Len(net.log) - Cardinality(GetIdx)) |->
               net.log[CHOOSE i \in (1..Len(net.log)) \ GetIdx :
                         Cardinality({j \in (1..Len(net.log)) \ GetIdx : j <= i}) = k]]

(* C16 - discoverSettings returns the settings {urlAPI, syncEnabled,       *)
(* asyncEnabled, urlAsyncAPI} of the first attempt (primary, then          *)
(* fallback) that answers 200 with a body, and null when both attempts     *)
(* fail; whenever the primary attempt fails exactly two network calls are  *)
(* made; the call never rejects.                                           *)
C16_DiscoveryResult ==
  (op = "discoverSettings" /\ Settled) =>
    LET yielding == {k \in 1..Len(Outcomes) : C15_Yields(Outcomes[k])} IN
    /\ ret \in {[def |-> FALSE]} \cup
               {[def |-> TRUE, v |-> C16_Settings(b)] : b \in SettingsBodies}
    /\ IF yielding = {}
       THEN ret = [def |-> FALSE] /\ Len(Outcomes) = 2
       ELSE LET first == CHOOSE k \in yielding : \A m \in yielding : k <= m IN
            /\ ret = [def |-> TRUE, v |-> C16_Settings(Outcomes[first].data.obj)]
            /\ Len(Outcomes) = first
    /\ ~C15_Yields(Outcomes[1]) => Cardinality(GetIdx) = 2

\* the primary request failed and the fallback answered with
\* {urlAPI, syncEnabled: true, asyncEnabled: false}: that object is
\* returned after two requests
C16_Witness ==
  /\ op = "discoverSettings"
  /\ Settled
  /\ Len(net.log) = 4
  /\ net.log[2].t = "fail"
  /\ net.log[4].t = "resp"
  /\ ret = [def |-> TRUE,
            v |-> [urlAPI |-> <<"u">>, syncEnabled |-> SomeBool(TRUE),
                   asyncEnabled |-> SomeBool(FALSE), urlAsyncAPI |-> NoStr]]

(* C17 - getTemplate issues exactly one GET, to                            *)
(* {urlAPI}/v2/domainTemplates/providers/{providerId}/services/{serviceId},*)
(* and returns the response body as the template when the status is 200    *)
(* with a non-empty body; for any other status, an empty body or a         *)
(* transport failure it returns null; it never rejects.                    *)
C17_GetTemplate ==
  op = "getTemplate" =>
    /\ Cardinality(GetIdx) = 1
    /\ net.log[1] =
         HttpGet(args.settings.urlAPI \o
                 <<"/", "v", "2", "/", "d", "o", "m", "a", "i", "n", "T", "e",
                   "m", "p", "l", "a", "t", "e", "s", "/", "p", "r", "o", "v",
                   "i", "d", "e", "r", "s", "/">> \o args.providerId \o
                 <<"/", "s", "e", "r", "v", "i", "c", "e", "s", "/">> \o
                 args.serviceId)
    /\ Settled =>
         /\ Len(net.log) = 2
         /\ IF C15_Yields(net.log[2])
            THEN ret = [def |-> TRUE, v |-> net.log[2].data.obj]
            ELSE ret = [def |-> FALSE]

\* a template with a record came back with status 200 and was returned
C17_Witness ==
  /\ op = "getTemplate"
  /\ Settled
  /\ args.providerId # args.serviceId
  /\ net.log[2].t = "resp"
  /\ net.log[2].status = 200
  /\ ret.def
  /\ ret.v.records # <<>>

\* the positions of the dots of the hostname of the call
C18_Dots == {i \in 1..Len(args.hostname) : args.hostname[i] = "."}

\* the number of labels of the hostname
C18_N == Cardinality(C18_Dots) + 1

\* the position of the dot that ends label k (0 before the first label,
\* one past the end for the last)
C18_DotAt(k) ==
  IF k <= 0 THEN 0
  ELSE IF k >= C18_N THEN Len(args.hostname) + 1
  ELSE CHOOSE i \in C18_Dots : Cardinality({j \in C18_Dots : j <= i}) = k

C18_Label(k) == SubSeq(args.hostname, C18_DotAt(k - 1) + 1, C18_DotAt(k) - 1)

\* the last m labels, dot-joined, and the labels before them, dot-joined
C18_LastLabels(m) ==
  SubSeq(args.hostname, C18_DotAt(C18_N - m) + 1, Len(args.hostname))
C18_LabelsBefore(m) == SubSeq(args.hostname, 1, C18_DotAt(C18_N - m) - 1)

\* the last two labels are a second-level name and a two-letter lowercase
\* country code
C18_SecondLevel ==
  /\ C18_Label(C18_N - 1) \in
       {<<"c", "o">>, <<"c", "o", "m">>, <<"n", "e", "t">>, <<"o", "r", "g">>,
        <<"g", "o", "v">>, <<"e", "d", "u">>}
  /\ Len(C18_Label(C18_N)) = 2
  /\ \A i \in 1..2 : C18_Label(C18_N)[i] \in LowerLetters

(* C18 - splitHostname(hostname), splitting on '.': with at most 2 labels  *)
(* it returns {domain: hostname} and no subdomain; with more than 2 labels *)
(* whose last two match (co|com|net|org|gov|edu).[a-z]{2} it returns the   *)
(* last three labels as domain and the preceding labels, dot-joined, as    *)
(* subdomain when there are at least 4 labels, and the whole hostname as   *)
(* domain with no subdomain when there are exactly 3; otherwise the last   *)
(* two labels as domain and the preceding labels as subdomain.             *)
C18_SplitHostname ==
  op = "splitHostname" =>
    IF C18_N <= 2
    THEN ret = [domain |-> args.hostname, subdomain |-> NoStr]
    ELSE IF C18_SecondLevel
    THEN IF C18_N >= 4
         THEN ret = [domain |-> C18_LastLabels(3),
                     subdomain |-> SomeStr(C18_LabelsBefore(3))]
         ELSE ret = [domain |-> args.hostname, subdomain |-> NoStr]
    ELSE ret = [domain |-> C18_LastLabels(2),
                subdomain |-> SomeStr(C18_LabelsBefore(2))]

\* 'w.ex.co.uk' is split into 'ex.co.uk' and 'w'
C18_Witness ==
  /\ op = "splitHostname"
  /\ args.hostname = <<"w", ".", "e", "x", ".", "c", "o", ".", "u", "k">>
  /\ ret = [domain |-> <<"e", "x", ".", "c", "o", ".", "u", "k">>,
            subdomain |-> SomeStr(<<"w">>)]

\* a provider lookup whose resolution answered with nameservers
IsProviderLookup ==
  /\ op = "getDnsProviderInfo"
  /\ Settled
  /\ LastOutcome.t = "ns"

\* the directory entries one of whose domains is contained in one of the
\* lowercased nameservers of the list
C19_Matching(list) ==
  {k \in 1..Len(dnsProviders) :
     \E d \in 1..Len(dnsProviders[k].domains), i \in 1..Len(list) :
       Includes(ToLowerCase(list[i]), dnsProviders[k].domains[d])}

C19_Reversed(list) == [i \in 1..Len(list) |-> list[Len(list) + 1 - i]]

(* C19 - identifyDnsProvider returns the name of the first directory       *)
(* entry, in directory order, one of whose domains is contained in one of  *)
(* the lowercased nameservers: the earlier directory entry wins whatever   *)
(* the order of the nameserver list, and matching is case-insensitive on   *)
(* the nameserver.                                                         *)
C19_FirstDirectoryMatch ==
  IsProviderLookup =>
    LET list == LastOutcome.nameservers
        matching == C19_Matching(list)
    IN matching # {} =>
         LET first == CHOOSE k \in matching : \A m \in matching : k <= m IN
         /\ identifyDnsProvider(list) = SomeStr(dnsProviders[first].name)
         /\ identifyDnsProvider(C19_Reversed(list)) =
              SomeStr(dnsProviders[first].name)
         /\ ret.provider = dnsProviders[first].name
         /\ ret.loginUrl = SomeStr(dnsProviders[first].loginUrl)

\* GoDaddy's nameserver, in mixed case, comes first and Cloudflare's second:
\* Cloudflare, the earlier directory entry, is reported
C19_Witness ==
  /\ IsProviderLookup
  /\ LastOutcome.nameservers =
       << <<"N", "S", ".", "G", "o", "D", "a", "d", "d", "y", ".", "c", "o", "m">>,
          <<"n", "s", ".", "c", "l", "o", "u", "d", "f", "l", "a", "r", "e", ".",
            "c", "o", "m">> >>
  /\ ret.provider = <<"C", "l", "o", "u", "d", "f", "l", "a", "r", "e">>

\* the last two labels of a name that has a dot, lowercased
C20_LastTwoLabels(name) ==
  LET dots == {i \in 1..Len(name) : name[i] = "."}
      last == CHOOSE i \in dots : \A j \in dots : j <= i
      before == {i \in dots : i < last}
      prev == IF before = {} THEN 0
              ELSE CHOOSE i \in before : \A j \in before : j <= i
  IN ToLowerCase(SubSeq(name, prev + 1, Len(name)))

(* C20 - when no directory entry matches, identifyDnsProvider returns the  *)
(* last two labels of the first nameserver (lowercased, joined by '.'),    *)
(* and no provider when the list is empty or the first nameserver has      *)
(* fewer than two labels; the login-URL lookup for such a fallback name    *)
(* yields no URL, so getDnsProviderInfo reports provider = that base       *)
(* domain with loginUrl null.                                              *)
C20_BaseDomainFallback ==
  IsProviderLookup =>
    LET list == LastOutcome.nameservers IN
    C19_Matching(list) = {} =>
      IF list = <<>> \/ \A i \in 1..Len(list[1]) : list[1][i] # "."
      THEN /\ identifyDnsProvider(list) = NoStr
           /\ ret.provider = <<"U", "n", "k", "n", "o", "w", "n">>
           /\ ret.loginUrl = NoStr
      ELSE /\ identifyDnsProvider(list) = SomeStr(C20_LastTwoLabels(list[1]))
           /\ getProviderLoginUrl(C20_LastTwoLabels(list[1])) = NoStr
           /\ ret.provider = C20_LastTwoLabels(list[1])
           /\ ret.loginUrl = NoStr

\* two unknown nameservers: the base domain of the first, lowercased, is
\* reported without a login URL
C20_Witness ==
  /\ IsProviderLookup
  /\ LastOutcome.nameservers =
       << <<"A", ".", "B", ".", "I", "o">>,
          <<"n", "s", ".", "e", "x", ".", "n", "e", "t">> >>
  /\ ret.provider = <<"b", ".", "i", "o">>
  /\ ret.loginUrl = NoStr

\* the outcomes call c has received, in order
C21_Outcomes(c) ==
  LET log == net[c].log
      idx == {i \in 1..Len(log) : log[i].t # "GET"}
  IN [k \in 1..Cardinality(idx) |->
        log[CHOOSE i \in idx : Cardinality({j \in idx : j <= i}) = k]]

\* the request log a lone call for the domain has after these outcomes
C21_LoneLog(domain, outs) ==
  <<HttpGet(PrimaryUrl(domain))>> \o
  (IF Len(outs) = 0 THEN <<>>
   ELSE <<outs[1]>> \o
        (IF C15_Yields(outs[1]) THEN <<>>
         ELSE <<HttpGet(FallbackUrl(domain))>> \o
              (IF Len(outs) = 1 THEN <<>> ELSE <<outs[2]>>)))

\* whether a lone call has completed after these outcomes, and its result
C21_LoneDone(outs) ==
  \/ Len(outs) = 2
  \/ Len(outs) = 1 /\ C15_Yields(outs[1])

C21_LoneResult(outs) ==
  IF C15_Yields(outs[Len(outs)])
  THEN [def |-> TRUE, v |-> C16_Settings(outs[Len(outs)].data.obj)]
  ELSE [def |-> FALSE]

(* C21 - concurrent discoverSettings invocations never interfere: under    *)
(* every interleaving of their requests and responses, the requests of     *)
(* each invocation and its returned value are those of a lone call for its *)
(* own domain that received the same responses; nothing is carried over    *)
(* from a call to the next.                                                *)
C21_NoInterference ==
  \A c \in ConcCalls :
    IF args[c] = Idle
    THEN ret[c] = Idle /\ net[c] = NoNet
    ELSE LET outs == C21_Outcomes(c) IN
         /\ Len(outs) <= 2
         /\ net[c].log = C21_LoneLog(args[c].domain, outs)
         /\ (net[c].wait = "none") <=> C21_LoneDone(outs)
         /\ IF net[c].wait = "none"
            THEN ret[c] = C21_LoneResult(outs)
            ELSE ret[c] = Idle

\* two calls for different domains, interleaved: the second started while
\* the first awaited, the first has fallen back and completed with null,
\* the second awaits its fallback for its own domain
C21_Witness ==
  /\ op = "concurrent"
  /\ args[1] # Idle
  /\ args[2] # Idle
  /\ args[1].domain # args[2].domain
  /\ net[1].wait = "none"
  /\ Len(net[1].log) = 4
  /\ ret[1] = [def |-> FALSE]
  /\ net[2].wait = "fallback"
  /\ net[2].log[3] = HttpGet(FallbackUrl(args[2].domain))

(* C22 - getDnsProviderInfo(domain) detects both the DNS provider and     *)
(* whether it supports Domain Connect: it resolves the nameservers, then   *)
(* runs Domain Connect discovery (up to two endpoint fetches), and its     *)
(* result carries supportsDomainConnect (plus domainConnectSettings when   *)
(* supported) alongside domain, nameservers and provider.                  *)
C22_Original ==
  IsProviderLookup =>
    /\ net.log[1].t = "resolveNs"
    /\ Cardinality(GetIdx) \in {1, 2}
    /\ {"domain", "nameservers", "provider", "supportsDomainConnect"}
         \subseteq DOMAIN ret

\* the login URL the directory lists under a name, or none
C23_LoginUrlOf(name) ==
  LET named == {k \in 1..Len(dnsProviders) : dnsProviders[k].name = name} IN
  IF named = {} THEN NoStr
  ELSE SomeStr(dnsProviders[CHOOSE k \in named : TRUE].loginUrl)

C24_Parseable ==
  LET uri == args.redirectUri IN
  \E i \in 2..Len(uri) :
    /\ uri[i] = ":"
    /\ uri[1] \in LowerLetters \cup {UpperLetterSeq[k] : k \in 1..26}
    /\ \A k \in 2..(i - 1) :
         uri[k] \in (IdentChars \ {"_"}) \cup {"+", "-", "."}
    /\ ToLowerCase(SubSeq(uri, 1, i - 1)) \in
         {<<"h", "t", "t", "p">>, <<"h", "t", "t", "p", "s">>,
          <<"f", "t", "p">>, <<"w", "s">>, <<"w", "s", "s">>}
       => \E k \in (i + 1)..Len(uri) :
            /\ uri[k] \notin {"/", "\\", "?", "#"}
            /\ \A j \in (i + 1)..(k - 1) : uri[j] \in {"/", "\\"}

\* the query string of the URI of the call: what lies between the first
\* '?' and the fragment
C24_Query ==
  LET uri == args.redirectUri
      hashes == {i \in 1..Len(uri) : uri[i] = "#"}
      hash == IF hashes = {} THEN Len(uri) + 1
              ELSE CHOOSE i \in hashes : \A j \in hashes : i <= j
      marks == {i \in 1..(hash - 1) : uri[i] = "?"}
  IN IF marks = {} THEN <<>>
     ELSE SubSeq(uri, (CHOOSE i \in marks : \A j \in marks : i <= j) + 1,
                 hash - 1)

\* the parameter of that name in the query string: its first value, none
\* when the parameter is missing or empty
C24_Param(name) ==
  LET entries == ParseQuery(C24_Query)
      named == {i \in 1..Len(entries) : entries[i].name = name}
      first == CHOOSE i \in named : \A j \in named : i <= j
  IN IF named = {} THEN NoStr
     ELSE IF entries[first].value = <<>> THEN NoStr
     ELSE SomeStr(entries[first].value)

(* C24 - parseRedirectUri never throws: for an unparseable URI it returns  *)
(* the empty object {}; for a parseable URI it returns {state, code} taken *)
(* from the query string, each being undefined when the parameter is       *)
(* missing or empty.                                                       *)
C24_ParseRedirectUri ==
  op = "parseRedirectUri" =>
    IF C24_Parseable
    THEN ret = [own |-> {"state", "code"},
                state |-> C24_Param(<<"s", "t", "a", "t", "e">>),
                code |-> C24_Param(<<"c", "o", "d", "e">>)]
    ELSE ret = [own |-> {}]

\* 'https://e.c/cb?state=&code=1#code=9': the empty state is undefined, the
\* code is the query's, not the fragment's
C24_Witness ==
  /\ op = "parseRedirectUri"
  /\ args.redirectUri =
       <<"h", "t", "t", "p", "s", ":", "/", "/", "e", ".", "c", "/", "c", "b",
         "?", "s", "t", "a", "t", "e", "=", "&", "c", "o", "d", "e", "=", "1",
         "#", "c", "o", "d", "e", "=", "9">>
  /\ ret = [own |-> {"state", "code"}, state |-> NoStr,
            code |-> SomeStr(<<"1">>)]

\* a placeholder opens at position i of the text of the call: a '%', one or
\* more identifier characters, a '%'
C25_Opens(i) ==
  /\ args.text[i] = "%"
  /\ \E j \in (i + 2)..Len(args.text) :
       /\ args.text[j] = "%"
       /\ \A k \in (i + 1)..(j - 1) : args.text[k] \in IdentChars

\* the '%' that closes the placeholder opening at i
C25_Close(i) ==
  CHOOSE j \in (i + 2)..Len(args.text) :
    /\ args.text[j] = "%"
    /\ \A k \in (i + 1)..(j - 1) : args.text[k] \in IdentChars

\* from '%' j to '%' i the text is a chain of placeholders, each closed by
\* the '%' that opens the next
C25_Chain(j, i) ==
  /\ j <= i
  /\ args.text[j] = "%"
  /\ args.text[i] = "%"
  /\ \A k \in j..i : args.text[k] \in IdentChars \cup {"%"}
  /\ \A k \in j..(i - 1) : ~(args.text[k] = "%" /\ args.text[k + 1] = "%")

\* the placeholder opening at i is a match of the pass: in its chain, an
\* even number of '%' precede it, so its '%' was not the closing delimiter
\* of the match before
C25_Matched(i) ==
  /\ C25_Opens(i)
  /\ LET chained == {j \in 1..i : C25_Chain(j, i)}
         first == CHOOSE j \in chained : \A m \in chained : j <= m
     IN Cardinality({k \in first..(i - 1) : args.text[k] = "%"}) % 2 = 0

\* what the pass emits for position k, given the positions where matches
\* start: the replacement at the start of a match, nothing inside a match,
\* the character elsewhere
C25_Emitted(k, matches) ==
  IF k \in matches
  THEN Replacer(SubSeq(args.text, k, C25_Close(k)),
                SubSeq(args.text, k + 1, C25_Close(k) - 1), args.params)
  ELSE IF \E i \in matches : i < k /\ k <= C25_Close(i)
  THEN <<>>
  ELSE <<args.text[k]>>

(* C25 - replaceVariables is a single left-to-right pass over              *)
(* non-overlapping matches: text inserted as a replacement value is never  *)
(* re-scanned, so a value that itself contains %name% is emitted verbatim  *)
(* even when name is a key of params, and a '%' consumed as the closing    *)
(* delimiter of one match cannot serve as the opening delimiter of the     *)
(* next.                                                                   *)
C25_SinglePass ==
  op = "replaceVariables" =>
    LET matches == {i \in 1..Len(args.text) : C25_Matched(i)} IN
    ret = Flatten([k \in 1..Len(args.text) |-> C25_Emitted(k, matches)])

\* '%a%a%' with a = '%a%': the value goes out as it is, and 'a%' after the
\* match is no placeholder
C25_Witness ==
  /\ op = "replaceVariables"
  /\ args.text = <<"%", "a", "%", "a", "%">>
  /\ Get(args.params, <<"a">>) = StrVal(<<"%", "a", "%">>)
  /\ ret = <<"%", "a", "%", "a", "%">>

(* C26 - generateRecords resolves pointsTo from the record's pointsTo and *)
(* params only: a present, non-empty pointsTo becomes                      *)
(* replaceVariables(pointsTo, params), an absent or empty pointsTo is left *)
(* as it is, and neither the caller host nor the domain argument           *)
(* influences pointsTo (a '%host%' inside pointsTo is not replaced by the  *)
(* caller host); the domain argument influences no field of the result.    *)
C26_PointsTo ==
  IsRecordsCall =>
    /\ \A i \in RecordIdx :
         LET raw == args.template.records[i].pointsTo IN
         ret[i].pointsTo =
           IF raw.def /\ raw.s # <<>>
           THEN SomeStr(replaceVariables(raw.s, args.params))
           ELSE raw
    /\ \A d \in RecordDomains \ {args.domain} :
         generateRecords(args.template, args.params, d, args.host).ret = ret

\* pointsTo '%a%.%host%' under the caller host 'b' with params {a: 'b'}:
\* 'b.%host%', the sentinel untouched
C26_Witness ==
  /\ IsRecordsCall
  /\ args.host = SomeStr(S_b)
  /\ args.domain = <<"e", ".", "c">>
  /\ OwnKeys(args.params) = {S_a}
  /\ Len(ret) = 1
  /\ args.template.records[1].pointsTo =
       SomeStr(<<"%", "a", "%", ".", "%", "h", "o", "s", "t", "%">>)
  /\ ret[1].pointsTo = SomeStr(<<"b", ".", "%", "h", "o", "s", "t", "%">>)

\* the single case analysis on the substituted host s and the caller host h
C27_Cases(s, h) ==
  IF TruthyStr(h)
  THEN IF s = S_at \/ s = S_pct_host THEN h.s ELSE s \o S_dot \o h.s
  ELSE IF s = S_pct_host THEN S_at ELSE s

(* C27 - the two-phase host resolution of generateRecords equals a single  *)
(* case analysis on the substituted host s and the caller host h: for a    *)
(* non-empty h, h when s is '@' or '%host%' and s.h otherwise; for an      *)
(* absent or empty h, '@' when s is '%host%' and s otherwise. A            *)
(* concatenation s.h is never the sentinel the second phase looks for.     *)
C27_HostCaseAnalysis ==
  IsRecordsCall =>
    \A i \in RecordIdx :
      LET s == SubstHost(i) IN
      /\ ret[i].host = C27_Cases(s, args.host)
      /\ (TruthyStr(args.host) /\ s # S_at /\ s # S_pct_host) =>
           /\ ret[i].host # S_pct_host
           /\ ret[i].host # args.host.s

\* one call with a sentinel record and a label record under caller host 'b',
\* or an apex record under the caller host '%host%' (the second phase then
\* sees the first phase's assignment)
C27_Witness ==
  /\ IsRecordsCall
  /\ \/ /\ args.host = SomeStr(S_b)
        /\ Len(ret) = 2
        /\ SubstHost(1) = S_pct_host /\ ret[1].host = S_b
        /\ SubstHost(2) = S_a /\ ret[2].host = <<"a", ".", "b">>
     \/ /\ args.host = SomeStr(S_pct_host)
        /\ Len(ret) = 1
        /\ SubstHost(1) = S_at /\ ret[1].host = S_pct_host

\* the operations that build an apply URL, and whether the URL is the
\* asynchronous one
C28_Sync == op \in {"generateSyncURL", "applyTemplateSynchronous"}
C28_Async == op \in {"generateAsyncURL", "applyTemplateAsynchronous"}

\* the URLs the current call has built: returned, requested, or handed back
\* as redirectUrl
C28_Urls ==
  CASE op = "generateSyncURL" -> {ret}
    [] op = "generateAsyncURL" -> IF ret.def THEN {ret.s} ELSE {}
    [] op = "applyTemplateSynchronous" ->
         {net.log[i].url : i \in {j \in 1..Len(net.log) : net.log[j].t = "GET"}}
    [] op = "applyTemplateAsynchronous" ->
         IF ret.redirectUrl.def THEN {ret.redirectUrl.s} ELSE {}
    [] OTHER -> {}

\* the entries of the query of url: what follows the first '?'
C28_Entries(url) ==
  ParseQuery(SubSeq(url, IndexOf(url, "?") + 1, Len(url)))

\* the optional reserved entries the options call for, in the code's order
C28_Optional(options) ==
  (IF TruthyStr(options.host) THEN <<Entry(S_host, options.host.s)>> ELSE <<>>)
    \o (IF C28_Async THEN C9_OAuthEntries(options) ELSE <<>>)

C28_ReservedNames == {S_domain, S_host, S_redirect_uri, S_state, S_force}

(* C28 - in every URL built by generateSyncURL, generateAsyncURL and the   *)
(* apply wrappers the reserved query entries (domain, host, redirect_uri,  *)
(* state, force) precede every params entry, and a params key equal to a   *)
(* reserved name is one more entry that neither replaces nor removes the   *)
(* reserved one: the query has exactly 1 + (optional reserved entries      *)
(* present) + (params entries) entries.                                    *)
C28_ReservedFirst ==
  (C28_Sync \/ C28_Async) =>
    \A url \in C28_Urls :
      LET e == C28_Entries(url)
          reserved == <<Entry(S_domain, args.options.domain)>>
                        \o C28_Optional(args.options)
          k == Len(reserved)
          p == args.options.params
      IN /\ Len(e) = k + Len(p)
         /\ \A i \in 1..k : e[i] = reserved[i] /\ e[i].name \in C28_ReservedNames
         /\ \A j \in 1..Len(p) :
              /\ e[k + j].name = p[j].key
              /\ e[k + j].value = JSString(p[j].val)

\* an asynchronous URL with all five reserved entries and two params, the
\* first named 'host' like the reserved entry in front of it
C28_Witness ==
  /\ op = "applyTemplateAsynchronous"
  /\ ret.redirectUrl.def
  /\ args.options.host = SomeStr(S_b)
  /\ Len(args.options.params) = 2
  /\ args.options.params[1].key = S_host
  /\ LET e == C28_Entries(ret.redirectUrl.s) IN
     /\ Len(e) = 7
     /\ e[2] = Entry(S_host, S_b)
     /\ e[5].name = S_force
     /\ e[6].name = S_host
     /\ e[6].value = JSString(args.options.params[1].val)

\* a call returning a DomainConnectResult has returned
C29_Returned ==
  /\ op \in {"applyTemplateSynchronous", "applyTemplateAsynchronous",
             "checkAsyncStatus"}
  /\ Settled

(* C29 - every DomainConnectResult returned by applyTemplateSynchronous,   *)
(* applyTemplateAsynchronous or checkAsyncStatus has: success = true       *)
(* implies error absent, success = false implies error present,            *)
(* redirectUrl present only on a successful applyTemplateAsynchronous      *)
(* result, asyncStatusUrl never set.                                       *)
C29_ResultShape ==
  C29_Returned =>
    /\ ret.success \in BOOLEAN
    /\ ret.success => ~ret.error.def
    /\ ~ret.success => ret.error.def
    /\ ret.redirectUrl.def => (op = "applyTemplateAsynchronous" /\ ret.success)
    /\ ~ret.asyncStatusUrl.def

\* a request that was rejected with an empty message: the result still
\* carries the error property
C29_Witness ==
  /\ C29_Returned
  /\ op = "checkAsyncStatus"
  /\ LastOutcome = Failure(<<>>)
  /\ ~ret.success
  /\ ret.error = SomeStr(<<>>)

\* a lookup in the built client's directory has returned
C30_IsDistLookup == op = "identifyDnsProviderDist"

\* the entries one of whose domains substrings is contained in a nameserver
\* of the call
C30_Matched ==
  {k \in 1..Len(dnsProvidersDist) :
     EntryMatches(dnsProvidersDist[k],
                  [i \in 1..Len(args.nameservers) |->
                     ToLowerCase(args.nameservers[i])])}

\* some nameserver list makes the lookup return the name of entry k
C30_Reachable(k) ==
  \E nameservers \in DistNameserverLists :
    identifyDnsProviderDist(nameservers) = SomeStr(dnsProvidersDist[k].name)

(* C30 as stated - every entry of the provider directory is reachable: for *)
(* each entry there is a nameserver list for which identifyDnsProvider     *)
(* returns that entry's name; no entry is completely shadowed by an        *)
(* earlier entry.  Checked for the entries the call's nameservers match.   *)
C30_Original ==
  C30_IsDistLookup => \A k \in C30_Matched : C30_Reachable(k)

====
